---- MODULE Spec2Model ----
(***************************************************************************)
(* A model of the dcc-lsystem crate: the token arena, the LSystemBuilder   *)
(* and the LSystem rewriting engine.                                        *)
(*                                                                         *)
(* An ArenaId(n) is the natural number n.  A String is the sequence of its *)
(* characters.  A Vec is a sequence, a HashMap is a function whose DOMAIN  *)
(* is its key set.  A panic (index out of a HashMap, unwrap of None, a     *)
(* failed assert_eq!) is the outcome [panic |-> TRUE].                     *)
(***************************************************************************)
EXTENDS Integers, Sequences, FiniteSets, TLC

\* ------------------------------------------------------------------ bounds
\* Most tokens a builder registers.
MaxTokens == 2
\* Most transformation rules a builder records.
MaxRules == 2
\* Most rewriting steps applied to a system since it was built or reset.
MaxSteps == 3
\* Most step()/step_by() calls made since the system was built or reset.
MaxTrace == 2
\* Most characters of a name handed to Token::new.
MaxNameLen == 3
\* Most values pushed to the arena that stands alone.
MaxEntries == 2
\* Most next() calls on an EnumerableArena after its last item.
MaxNones == 2

\* Calls made on a turtle, a renderer or a turtle builder.
MaxCalls == 4

\* Tokens of a system state handed to a renderer made by a turtle builder.
MaxFed == 5

\* Lines of the turtle a video is rendered from, and the largest skip_by.
MaxLines == 3
MaxSkipBy == 2

\* ------------------------------------------------------------------ inputs
\* Token names handed to LSystemBuilder::token: the next unused letter of the
\* alphabet, or a name with a space in it.
Alphabet == <<"A", "B", "C", "D", "E", "F">>

Names(arena) ==
    {<<Alphabet[i]>> : i \in {Len(arena) + 1} \cap DOMAIN Alphabet}
        \cup { <<"A", " ", "B">> }

\* The characters of the names handed to Token::new: letters, the space and
\* two more whitespace characters.
NameChars == {"A", "B", " ", "\t", "\n"}

\* The names handed to Token::new.
TokenNames == UNION {[1..n -> NameChars] : n \in 0..MaxNameLen}

\* Token names handed to LSystemBuilder::token where whitespace matters.
WhitespaceNames(arena) ==
    Names(arena) \cup { <<"A", "\t", "B">>, <<"A", "\n", "B">> }

\* The values pushed to the arena that stands alone, those of arena_basic.
ArenaValues == {"Hello!", "World", "Jenkins"}

\* The ids handed to it: one more than it ever holds.
ArenaIds == 0..(MaxEntries + 1)

\* The slices handed to is_valid_slice.
ArenaSlices == UNION {[1..n -> ArenaIds] : n \in 0..2}

\* Ids handed to the builder: MaxTokens is never registered, and any id at or
\* above the arena's length is an id of some other, larger builder.
Ids == 0..MaxTokens

\* Id sequences handed to axiom() and transformation_rule().
IdSeqs == { <<>>, <<0>>, <<0, 1>> }

\* ------------------------------------------------------------ Option/Result
None == [some |-> FALSE]
Some(v) == [some |-> TRUE, val |-> v]

Ok(v) == [ok |-> TRUE, val |-> v]
Err(e) == [ok |-> FALSE, err |-> e]

Unit == <<>>

\* errors.rs
InvalidToken(name) == [kind |-> "InvalidToken", name |-> name]
UnknownToken(name) == [kind |-> "UnknownToken", name |-> name]
InvalidRule(rule) == [kind |-> "InvalidRule", rule |-> rule]
InvalidArenaId(id) == [kind |-> "InvalidArenaId", id |-> id]
MissingAxiom == [kind |-> "MissingAxiom"]

\* The outcome of a call: it panicked, or it returned ret and left the
\* receiver as self.
Panic == [panic |-> TRUE]
Done(s, r) == [panic |-> FALSE, self |-> s, ret |-> r]

\* ------------------------------------------------------------------- Arena
Arena_new == <<>>

Arena_len(arena) == Len(arena)

Arena_get(arena, id) == IF id < Len(arena) THEN Some(arena[id + 1]) ELSE None

\* is_valid() that takes the length itself for an id.
Arena_is_valid_inclusive(arena, id) == id <= Len(arena)

Arena_is_valid(arena, id) == id < Len(arena)

\* push() that returns the length after the push.
Arena_push_returns_len(arena, value) ==
    LET pushed_to == Append(arena, value)
    IN  [arena |-> pushed_to, id |-> Len(pushed_to)]

\* The arena after the push, and the id returned.
Arena_push(arena, value) ==
    LET pushed == Append(arena, value)
    IN  [arena |-> pushed, id |-> Len(pushed) - 1]

\* get_mut's Option<&mut T>: the reference is the slot it points at.
Arena_get_mut(arena, id) == IF id < Len(arena) THEN Some([slot |-> id + 1]) ELSE None

\* *reference = value, through a reference get_mut returned.
write(arena, reference, value) == [arena EXCEPT ![reference.slot] = value]

Arena_is_valid_slice(arena, slice) ==
    \A i \in 1..Len(slice) : Arena_is_valid(arena, slice[i])

\* The items EnumerableArena::next yields until it returns None.
Arena_enumerate(arena) == [pos \in 1..Len(arena) |-> <<pos - 1, arena[pos]>>]

\* The iterator enumerate() returns: a borrow of the arena, at position 0.
EnumerableArena_new(inner) == [inner |-> inner, pos |-> 0]

\* next() that numbers its items from the advanced position.
EnumerableArena_next_numbers_from_one(self) ==
    IF self.pos >= Arena_len(self.inner) THEN Done(self, None)
    ELSE LET pos == self.pos + 1
             item == Arena_get(self.inner, pos - 1)
         IN  IF ~item.some THEN Panic
             ELSE Done([self EXCEPT !.pos = pos], Some(<<pos, item.val>>))

EnumerableArena_next(self) ==
    IF self.pos >= Arena_len(self.inner) THEN Done(self, None)
    ELSE LET pos == self.pos + 1
             item == Arena_get(self.inner, pos - 1)
         IN  IF ~item.some THEN Panic
             ELSE Done([self EXCEPT !.pos = pos], Some(<<pos - 1, item.val>>))

\* ------------------------------------------------------------------- Token
\* str::contains(char)
contains(name, c) == \E i \in 1..Len(name) : name[i] = c

Token_new(name) ==
    IF contains(name, " ") THEN Err(InvalidToken(name)) ELSE Ok([name |-> name])

Token_name(token) == token.name

\* ----------------------------------------------------------------- HashMap
HashMap_new == <<>>

HashMap_insert(map, k, v) ==
    [x \in (DOMAIN map) \cup {k} |-> IF x = k THEN v ELSE map[x]]

HashMap_len(map) == Cardinality(DOMAIN map)

\* ----------------------------------------------------------------- LSystem
LSystem_new(arena, axiom, rules_map) ==
    [arena |-> arena, axiom |-> axiom, rules_map |-> rules_map,
     state |-> axiom, steps |-> 0]

\* reset() that leaves the state as it is.
LSystem_reset_keeps_state(self) ==
    Done([self EXCEPT !.steps = 0], Unit)

\* reset() with its assignment turned around.
LSystem_reset_swapped(self) ==
    Done([self EXCEPT !.axiom = self.state, !.steps = 0], Unit)

LSystem_reset(self) ==
    Done([self EXCEPT !.state = self.axiom, !.steps = 0], Unit)

\* The loop of step() putting each successor in front of next_state.
RECURSIVE step_extend_prepend(_, _, _, _)
step_extend_prepend(rules_map, state, i, next_state) ==
    IF i > Len(state) THEN next_state
    ELSE step_extend_prepend(rules_map, state, i + 1, rules_map[state[i]] \o next_state)

\* The loop of step() assigning each successor to next_state.
RECURSIVE step_extend_overwrite(_, _, _, _)
step_extend_overwrite(rules_map, state, i, next_state) ==
    IF i > Len(state) THEN next_state
    ELSE step_extend_overwrite(rules_map, state, i + 1, rules_map[state[i]])

\* The loop of step(): next_state after the ids state[i..] have been visited.
RECURSIVE step_extend(_, _, _, _)
step_extend(rules_map, state, i, next_state) ==
    IF i > Len(state) THEN next_state
    ELSE step_extend(rules_map, state, i + 1, next_state \o rules_map[state[i]])

\* step() that leaves the step counter as it is.
LSystem_step_uncounted(self) ==
    IF \E i \in 1..Len(self.state) : self.state[i] \notin DOMAIN self.rules_map
    THEN Panic
    ELSE Done([self EXCEPT
                 !.state = step_extend(self.rules_map, self.state, 1, <<>>)], Unit)

LSystem_step(self) ==
    IF \E i \in 1..Len(self.state) : self.state[i] \notin DOMAIN self.rules_map
    THEN Panic
    ELSE Done([self EXCEPT
                 !.state = step_extend(self.rules_map, self.state, 1, <<>>),
                 !.steps = self.steps + 1], Unit)

\* The loop of step_by(): the outcome after iterations i..n-1.
RECURSIVE step_by_loop(_, _, _)
step_by_loop(self, i, n) ==
    IF i >= n THEN Done(self, Unit)
    ELSE LET r == LSystem_step(self)
         IN  IF r.panic THEN Panic ELSE step_by_loop(r.self, i + 1, n)

\* step_by() over the range 0..=n.
LSystem_step_by_inclusive(self, n) == step_by_loop(self, 0, n + 1)

\* step_by() over the range 1..n.
LSystem_step_by_from_one(self, n) == step_by_loop(self, 1, n)

LSystem_step_by(self, n) == step_by_loop(self, 0, n)

LSystem_steps(self) == Done(self, self.steps)

\* [String]::join("")
RECURSIVE join(_)
join(strs) == IF strs = <<>> THEN <<>> ELSE Head(strs) \o join(Tail(strs))

LSystem_render(self) ==
    IF \E i \in 1..Len(self.state) : ~Arena_get(self.arena, self.state[i]).some
    THEN Panic
    ELSE Done(self, join([i \in 1..Len(self.state) |->
                            Token_name(Arena_get(self.arena, self.state[i]).val)]))

LSystem_get_state(self) == Done(self, self.state)

\* ---------------------------------------------------------- LSystemBuilder
TransformationRule_new(predecessor, successor) ==
    [predecessor |-> predecessor, successor |-> successor]

LSystemBuilder_new == [arena |-> Arena_new, axiom |-> None, rules |-> <<>>]

\* token() that spends an id on a name it rejects.
LSystemBuilder_token_spends_id(self, name) ==
    LET t == Token_new(name)
        p == Arena_push(self.arena, [name |-> name])
    IN  IF ~t.ok THEN Done([self EXCEPT !.arena = p.arena], Err(t.err))
        ELSE Done([self EXCEPT !.arena = p.arena], Ok(p.id))

LSystemBuilder_token(self, name) ==
    LET t == Token_new(name)
    IN  IF ~t.ok THEN Done(self, Err(t.err))
        ELSE LET p == Arena_push(self.arena, t.val)
             IN  Done([self EXCEPT !.arena = p.arena], Ok(p.id))

\* The loop of validate_ids over ids[i..].
RECURSIVE validate_ids_from(_, _, _)
validate_ids_from(self, ids, i) ==
    IF i > Len(ids) THEN Ok(Unit)
    ELSE IF ~Arena_is_valid(self.arena, ids[i]) THEN Err(InvalidArenaId(ids[i]))
    ELSE validate_ids_from(self, ids, i + 1)

LSystemBuilder_validate_ids(self, ids) == validate_ids_from(self, ids, 1)

\* transformation_rule() that validates the successor only.
LSystemBuilder_transformation_rule_any_predecessor(self, predecessor, successor) ==
    LET v2 == LSystemBuilder_validate_ids(self, successor)
    IN  IF ~v2.ok THEN Done(self, v2)
        ELSE Done([self EXCEPT !.rules =
                     Append(self.rules, TransformationRule_new(predecessor, successor))],
                  Ok(Unit))

\* transformation_rule() that validates the successor before the predecessor.
LSystemBuilder_transformation_rule_successor_first(self, predecessor, successor) ==
    LET v1 == LSystemBuilder_validate_ids(self, <<predecessor>>)
        v2 == LSystemBuilder_validate_ids(self, successor)
    IN  IF ~v2.ok THEN Done(self, v2)
        ELSE IF ~v1.ok THEN Done(self, v1)
        ELSE Done([self EXCEPT !.rules =
                     Append(self.rules, TransformationRule_new(predecessor, successor))],
                  Ok(Unit))

LSystemBuilder_transformation_rule(self, predecessor, successor) ==
    LET v1 == LSystemBuilder_validate_ids(self, <<predecessor>>)
        v2 == LSystemBuilder_validate_ids(self, successor)
    IN  IF ~v1.ok THEN Done(self, v1)
        ELSE IF ~v2.ok THEN Done(self, v2)
        ELSE Done([self EXCEPT !.rules =
                     Append(self.rules, TransformationRule_new(predecessor, successor))],
                  Ok(Unit))

\* axiom() that validates nothing.
LSystemBuilder_axiom_unchecked(self, axiom) ==
    Done([self EXCEPT !.axiom = Some(axiom)], Ok(Unit))

\* axiom() that keeps an axiom already set.
LSystemBuilder_axiom_keeps_first(self, axiom) ==
    LET v == LSystemBuilder_validate_ids(self, axiom)
    IN  IF ~v.ok THEN Done(self, v)
        ELSE IF self.axiom.some THEN Done(self, Ok(Unit))
        ELSE Done([self EXCEPT !.axiom = Some(axiom)], Ok(Unit))

\* axiom() that stores the axiom before it validates it.
LSystemBuilder_axiom_stores_first(self, axiom) ==
    LET v == LSystemBuilder_validate_ids(self, axiom)
    IN  IF ~v.ok THEN Done([self EXCEPT !.axiom = Some(axiom)], v)
        ELSE Done([self EXCEPT !.axiom = Some(axiom)], Ok(Unit))

LSystemBuilder_axiom(self, axiom) ==
    LET v == LSystemBuilder_validate_ids(self, axiom)
    IN  IF ~v.ok THEN Done(self, v)
        ELSE Done([self EXCEPT !.axiom = Some(axiom)], Ok(Unit))

\* The first loop of finish() keeping the entry a predecessor already has.
RECURSIVE insert_rules_first_wins(_, _, _)
insert_rules_first_wins(rules, i, rules_map) ==
    IF i > Len(rules) THEN rules_map
    ELSE insert_rules_first_wins(rules, i + 1,
            IF rules[i].predecessor \in DOMAIN rules_map THEN rules_map
            ELSE HashMap_insert(rules_map, rules[i].predecessor, rules[i].successor))

\* finish(), first loop: rules_map after rules[i..] have been inserted.
RECURSIVE insert_rules(_, _, _)
insert_rules(rules, i, rules_map) ==
    IF i > Len(rules) THEN rules_map
    ELSE insert_rules(rules, i + 1,
            HashMap_insert(rules_map, rules[i].predecessor, rules[i].successor))

\* rules_map.entry(id).or_insert_with(Vec::new)
constant_rule_empty(rules_map, id) ==
    IF id \in DOMAIN rules_map THEN rules_map ELSE HashMap_insert(rules_map, id, <<>>)

\* rules_map.entry(id).or_insert_with(|| vec![id])
constant_rule(rules_map, id) ==
    IF id \in DOMAIN rules_map THEN rules_map ELSE HashMap_insert(rules_map, id, <<id>>)

\* finish(), second loop: rules_map after items[i..] of the enumeration.
RECURSIVE insert_constants(_, _, _)
insert_constants(items, i, rules_map) ==
    IF i > Len(items) THEN rules_map
    ELSE insert_constants(items, i + 1, constant_rule(rules_map, items[i][1]))

\* finish() that takes the empty axiom when none is set.
LSystemBuilder_finish_default_axiom(self) ==
    LET axiom == IF self.axiom.some THEN self.axiom.val ELSE <<>>
        explicit == insert_rules(self.rules, 1, HashMap_new)
        rules_map == insert_constants(Arena_enumerate(self.arena), 1, explicit)
    IN  IF Arena_len(self.arena) # HashMap_len(rules_map) THEN Panic
        ELSE Done(Unit, Ok(LSystem_new(self.arena, axiom, rules_map)))

\* finish() consumes the builder: the outcome has no builder left in it.
LSystemBuilder_finish(self) ==
    IF ~self.axiom.some THEN Done(Unit, Err(MissingAxiom))
    ELSE LET explicit == insert_rules(self.rules, 1, HashMap_new)
             rules_map == insert_constants(Arena_enumerate(self.arena), 1, explicit)
         IN  IF Arena_len(self.arena) # HashMap_len(rules_map) THEN Panic
             ELSE Done(Unit, Ok(LSystem_new(self.arena, self.axiom.val, rules_map)))

\* --------------------------------------------------------------------- f64
\* An f64 is NaN, an infinity (inf is its sign) or a number.  The numbers the
\* turtles are driven with are small integers, which an f64 holds exactly, as
\* it holds their sums and products.
F(v) == [nan |-> FALSE, inf |-> 0, v |-> v]
NaN == [nan |-> TRUE]
INFINITY == [nan |-> FALSE, inf |-> 1, v |-> 0]

f64_is_finite(a) == ~a.nan /\ a.inf = 0

f64_signum(a) == IF a.inf # 0 THEN a.inf ELSE IF a.v > 0 THEN 1 ELSE IF a.v < 0 THEN -1 ELSE 0

\* a < b; false when either is NaN.
f64_lt(a, b) ==
    /\ ~a.nan
    /\ ~b.nan
    /\ IF a.inf # b.inf THEN a.inf < b.inf ELSE a.inf = 0 /\ a.v < b.v

f64_add(a, b) ==
    IF a.nan \/ b.nan THEN NaN
    ELSE IF a.inf # 0 /\ b.inf # 0 THEN (IF a.inf = b.inf THEN a ELSE NaN)
    ELSE IF a.inf # 0 THEN a
    ELSE IF b.inf # 0 THEN b
    ELSE F(a.v + b.v)

f64_neg(a) == IF a.nan THEN NaN ELSE [nan |-> FALSE, inf |-> 0 - a.inf, v |-> 0 - a.v]

f64_sub(a, b) == f64_add(a, f64_neg(b))

f64_mul(a, b) ==
    IF a.nan \/ b.nan THEN NaN
    ELSE IF a.inf # 0 \/ b.inf # 0
         THEN (IF f64_signum(a) * f64_signum(b) = 0 THEN NaN
               ELSE [nan |-> FALSE, inf |-> f64_signum(a) * f64_signum(b), v |-> 0])
    ELSE F(a.v * b.v)

\* f64::min and f64::max: if one argument is NaN the other is returned.
f64_min(a, b) == IF a.nan THEN b ELSE IF b.nan THEN a ELSE IF f64_lt(b, a) THEN b ELSE a

f64_max(a, b) == IF a.nan THEN b ELSE IF b.nan THEN a ELSE IF f64_lt(a, b) THEN b ELSE a

f64_abs(a) == IF a.nan THEN NaN ELSE IF f64_lt(a, F(0)) THEN f64_neg(a) ELSE a

\* -------------------------------------------------------------- BaseTurtle
BaseTurtle_new ==
    [x |-> F(0), y |-> F(0), lines |-> <<>>,
     max_x |-> F(0), max_y |-> F(0), min_x |-> F(0), min_y |-> F(0),
     pen_down |-> TRUE]

BaseTurtle_x(self) == self.x

BaseTurtle_y(self) == self.y

BaseTurtle_lines(self) == self.lines

update_bounds_of_x_only(self) ==
    [self EXCEPT !.min_x = f64_min(self.min_x, self.x),
                 !.max_x = f64_max(self.max_x, self.x)]

update_bounds(self) ==
    [self EXCEPT !.min_x = f64_min(self.min_x, self.x),
                 !.min_y = f64_min(self.min_y, self.y),
                 !.max_x = f64_max(self.max_x, self.x),
                 !.max_y = f64_max(self.max_y, self.y)]

BaseTurtle_set_position_draws(self, x, y) ==
    update_bounds([self EXCEPT !.x = x, !.y = y,
                               !.lines = Append(self.lines, <<self.x, self.y, x, y>>)])

BaseTurtle_set_position(self, x, y) ==
    update_bounds([self EXCEPT !.x = x, !.y = y])

BaseTurtle_delta_move_always_draws(self, dx, dy) ==
    LET x2 == f64_add(self.x, dx)
        y2 == f64_add(self.y, dy)
    IN  update_bounds([self EXCEPT
            !.lines = Append(self.lines, <<self.x, self.y, x2, y2>>),
            !.x = x2, !.y = y2])

BaseTurtle_delta_move(self, dx, dy) ==
    LET x2 == f64_add(self.x, dx)
        y2 == f64_add(self.y, dy)
    IN  update_bounds([self EXCEPT
            !.lines = IF self.pen_down
                      THEN Append(self.lines, <<self.x, self.y, x2, y2>>)
                      ELSE self.lines,
            !.x = x2, !.y = y2])

\* (total width, total height, min_x, min_y)
BaseTurtle_bounds(self) ==
    <<f64_add(self.max_x, f64_abs(self.min_x)),
      f64_add(self.max_y, f64_abs(self.min_y)),
      self.min_x, self.min_y>>

BaseTurtle_pen_down(self) == [self EXCEPT !.pen_down = TRUE]

BaseTurtle_pen_up(self) == [self EXCEPT !.pen_down = FALSE]

\* ------------------------------------------------------------ SimpleTurtle
\* Angles are counted in quarter turns, so FRAC_PI_2 is 1.  At a whole number
\* of quarter turns cos() and sin() are 0, 1 or -1; the rounding of an f64
\* there (cos(FRAC_PI_2) is 6.1e-17, not 0) is left out.  At heading 0 there is
\* none: cos(0.0) is 1.0 and sin(0.0) is 0.0.
FRAC_PI_2 == F(1)

f64_cos(a) ==
    IF ~f64_is_finite(a) THEN NaN
    ELSE IF a.v % 4 = 0 THEN F(1) ELSE IF a.v % 4 = 2 THEN F(-1) ELSE F(0)

f64_sin(a) ==
    IF ~f64_is_finite(a) THEN NaN
    ELSE IF a.v % 4 = 1 THEN F(1) ELSE IF a.v % 4 = 3 THEN F(-1) ELSE F(0)

SimpleTurtle_new ==
    [turtle |-> BaseTurtle_new, heading |-> FRAC_PI_2, stack |-> <<>>,
     pen_down |-> TRUE]

SimpleTurtle_left(self, angle) ==
    [self EXCEPT !.heading = f64_add(self.heading, angle)]

SimpleTurtle_right(self, angle) ==
    [self EXCEPT !.heading = f64_sub(self.heading, angle)]

SimpleTurtle_set_heading(self, heading) == [self EXCEPT !.heading = heading]

SimpleTurtle_push(self) ==
    [self EXCEPT !.stack = Append(self.stack,
        <<BaseTurtle_x(self.turtle), BaseTurtle_y(self.turtle), self.heading>>)]

\* pop() that draws its way back.
SimpleTurtle_pop_draws(self) ==
    IF self.stack # <<>>
    THEN LET top == self.stack[Len(self.stack)]
         IN  [self EXCEPT !.stack = SubSeq(self.stack, 1, Len(self.stack) - 1),
                          !.turtle = BaseTurtle_set_position_draws(self.turtle,
                                                                   top[1], top[2]),
                          !.heading = top[3]]
    ELSE self

\* pop() that takes the oldest entry of the stack.
SimpleTurtle_pop_oldest(self) ==
    IF self.stack # <<>>
    THEN LET top == Head(self.stack)
         IN  [self EXCEPT !.stack = Tail(self.stack),
                          !.turtle = BaseTurtle_set_position(self.turtle, top[1], top[2]),
                          !.heading = top[3]]
    ELSE self

\* pop() that goes back to the origin when the stack is empty.
SimpleTurtle_pop_home_when_empty(self) ==
    IF self.stack # <<>>
    THEN LET top == self.stack[Len(self.stack)]
         IN  [self EXCEPT !.stack = SubSeq(self.stack, 1, Len(self.stack) - 1),
                          !.turtle = BaseTurtle_set_position(self.turtle, top[1], top[2]),
                          !.heading = top[3]]
    ELSE [self EXCEPT !.turtle = BaseTurtle_set_position(self.turtle, F(0), F(0))]

SimpleTurtle_pop(self) ==
    IF self.stack # <<>>
    THEN LET top == self.stack[Len(self.stack)]
         IN  [self EXCEPT !.stack = SubSeq(self.stack, 1, Len(self.stack) - 1),
                          !.turtle = BaseTurtle_set_position(self.turtle, top[1], top[2]),
                          !.heading = top[3]]
    ELSE self

\* forward() that moves only while the pen of the inner BaseTurtle is down.
SimpleTurtle_forward_if_inner_pen_down(self, distance) ==
    LET dx == f64_mul(f64_cos(self.heading), F(distance))
        dy == f64_mul(f64_sin(self.heading), F(distance))
    IN  IF self.pen_down /\ self.turtle.pen_down
        THEN [self EXCEPT !.turtle = BaseTurtle_delta_move(self.turtle, dx, dy)]
        ELSE self

\* forward() with cos() and sin() exchanged.
SimpleTurtle_forward_sideways(self, distance) ==
    LET dx == f64_mul(f64_sin(self.heading), F(distance))
        dy == f64_mul(f64_cos(self.heading), F(distance))
    IN  IF self.pen_down
        THEN [self EXCEPT !.turtle = BaseTurtle_delta_move(self.turtle, dx, dy)]
        ELSE self

SimpleTurtle_forward(self, distance) ==
    LET dx == f64_mul(f64_cos(self.heading), F(distance))
        dy == f64_mul(f64_sin(self.heading), F(distance))
    IN  IF self.pen_down
        THEN [self EXCEPT !.turtle = BaseTurtle_delta_move(self.turtle, dx, dy)]
        ELSE self

\* ------------------------------------------------------------- StackTurtle
\* The turtle of the dcc-lsystem 0.2 crate: i32 coordinates, an f32 heading.
\* `as i32` rounds towards zero, takes NaN to 0 and saturates.
i32_MAX == (2^30 - 1) * 2 + 1

as_i32(a) ==
    IF a.nan THEN F(0)
    ELSE IF a.inf = 1 \/ (a.inf = 0 /\ a.v > i32_MAX) THEN F(i32_MAX)
    ELSE IF a.inf = -1 \/ (a.inf = 0 /\ a.v < 0 - i32_MAX - 1) THEN F(0 - i32_MAX - 1)
    ELSE a

StackTurtle_new ==
    [turtle |-> BaseTurtle_new, heading |-> FRAC_PI_2, stack |-> <<>>,
     pen_down |-> TRUE]

StackTurtle_push(self) ==
    [self EXCEPT !.stack = Append(self.stack,
        <<BaseTurtle_x(self.turtle), BaseTurtle_y(self.turtle), self.heading>>)]

StackTurtle_pop(self) ==
    IF self.stack = <<>> THEN Panic
    ELSE LET top == self.stack[Len(self.stack)]
         IN  Done([self EXCEPT
                      !.stack = SubSeq(self.stack, 1, Len(self.stack) - 1),
                      !.turtle = BaseTurtle_set_position(self.turtle, top[1], top[2]),
                      !.heading = top[3]], Unit)

StackTurtle_forward(self, distance) ==
    LET dx == f64_mul(f64_cos(self.heading), F(distance))
        dy == f64_mul(f64_sin(self.heading), F(distance))
    IN  IF self.pen_down
        THEN [self EXCEPT !.turtle =
                 BaseTurtle_delta_move(self.turtle, as_i32(dx), as_i32(dy))]
        ELSE self

\* ----------------------------------------------------------- LatticeTurtle
Lattice_new(x_direction, y_direction) ==
    [x_direction |-> x_direction, y_direction |-> y_direction]

Lattice_point(self, x, y) ==
    <<f64_add(f64_mul(self.x_direction[1], F(x)), f64_mul(self.y_direction[1], F(y))),
      f64_add(f64_mul(self.x_direction[2], F(x)), f64_mul(self.y_direction[2], F(y)))>>

LatticeTurtle_new(lattice) ==
    [inner |-> BaseTurtle_new, lattice |-> lattice, x |-> 0, y |-> 0, stack |-> <<>>]

LatticeTurtle_grid == LatticeTurtle_new(Lattice_new(<<F(1), F(0)>>, <<F(0), F(1)>>))

\* forward() that moves on from wherever the BaseTurtle stands.
LatticeTurtle_forward_from_inner(self, distance) ==
    LET rd == Lattice_point(self.lattice, distance[1], distance[2])
    IN  [self EXCEPT !.inner = BaseTurtle_delta_move(self.inner, as_i32(rd[1]),
                                                     as_i32(rd[2])),
                     !.x = self.x + distance[1],
                     !.y = self.y + distance[2]]

LatticeTurtle_forward(self, distance) ==
    LET r == Lattice_point(self.lattice, self.x, self.y)
        placed == BaseTurtle_set_position(self.inner, as_i32(r[1]), as_i32(r[2]))
        rd == Lattice_point(self.lattice, distance[1], distance[2])
    IN  [self EXCEPT !.inner = BaseTurtle_delta_move(placed, as_i32(rd[1]), as_i32(rd[2])),
                     !.x = self.x + distance[1],
                     !.y = self.y + distance[2]]

LatticeTurtle_push(self) ==
    [self EXCEPT !.stack = Append(self.stack, <<self.x, self.y>>)]

LatticeTurtle_pop(self) ==
    IF self.stack = <<>> THEN Panic
    ELSE LET top == self.stack[Len(self.stack)]
         IN  Done([self EXCEPT
                      !.stack = SubSeq(self.stack, 1, Len(self.stack) - 1),
                      !.x = top[1], !.y = top[2]], Unit)

\* ---------------------------------------------------------- TurtleRenderer
\* The mutator |state| state.push(name) of a TurtleRenderer<Vec<&str>>: it is
\* known by its name, and the state is the list of the names of the mutators
\* called on it, in call order.
Pushes(name) == [kind |-> "push", name |-> name]

\* i32 `%`: the remainder of the division that truncates towards zero, which
\* has the sign of a.
i32_rem(a, b) == IF a >= 0 THEN a % b ELSE 0 - ((0 - a) % b)

\* i32 `+`: the sum, or overflow when it is not an i32.
i32_add(a, b) ==
    IF a > 0 /\ b > i32_MAX - a THEN [overflow |-> TRUE]
    ELSE IF a < 0 /\ b < (0 - i32_MAX - 1) - a THEN [overflow |-> TRUE]
    ELSE [overflow |-> FALSE, val |-> a + b]

\* f64::to_radians of (degrees as f64), in the unit of the headings; the
\* angles the turtle is driven with are multiples of 90 degrees.
to_radians(degrees) == F(i32_rem(degrees, 360) \div 90)

\* The Rotate mutator without the remainder.
TurtleAction_Rotate_unbounded(state, angle) ==
    LET sum == i32_add(state.angle, angle)
    IN  IF sum.overflow THEN Panic
        ELSE Done([state EXCEPT !.angle = sum.val], Unit)

\* The Rotate mutator of finish(): state.angle = (state.angle + angle) % 360.
TurtleAction_Rotate(state, angle) ==
    LET sum == i32_add(state.angle, angle)
    IN  IF sum.overflow THEN Panic
        ELSE Done([state EXCEPT !.angle = i32_rem(sum.val, 360)], Unit)

\* The Pop mutator that leaves the angle as it is.
TurtleAction_Pop_keeps_angle(state) ==
    [state EXCEPT !.turtle = SimpleTurtle_pop(state.turtle),
                  !.angle_stack = IF @ = <<>> THEN @ ELSE SubSeq(@, 1, Len(@) - 1)]

\* The Pop mutator of finish().
TurtleAction_Pop(state) ==
    LET popped == [state EXCEPT !.turtle = SimpleTurtle_pop(state.turtle)]
    IN  IF state.angle_stack # <<>>
        THEN [popped EXCEPT
                 !.angle_stack = SubSeq(state.angle_stack, 1, Len(state.angle_stack) - 1),
                 !.angle = state.angle_stack[Len(state.angle_stack)]]
        ELSE popped

\* The Push mutator of finish().
TurtleAction_Push(state) ==
    [state EXCEPT !.turtle = SimpleTurtle_push(state.turtle),
                  !.angle_stack = Append(state.angle_stack, state.angle)]

\* The Forward mutator of finish().
TurtleAction_Forward(state, current_global_rotate, distance) ==
    LET sum == i32_add(current_global_rotate, state.angle)
    IN  IF sum.overflow THEN Panic
        ELSE Done([state EXCEPT !.turtle =
                       SimpleTurtle_forward(
                           SimpleTurtle_set_heading(state.turtle, to_radians(sum.val)),
                           distance)], Unit)

\* (self.state_actions[alias])(&mut self.state): the state after the call,
\* or a panic.
apply_modifier(modifier, state) ==
    CASE modifier.kind = "push" -> Done(Append(state, modifier.name), Unit)
      [] modifier.kind = "Push" -> Done(TurtleAction_Push(state), Unit)
      [] modifier.kind = "Pop" -> Done(TurtleAction_Pop(state), Unit)
      [] modifier.kind = "Forward" ->
             TurtleAction_Forward(state, modifier.global_rotate, modifier.distance)
      [] modifier.kind = "Rotate" -> TurtleAction_Rotate(state, modifier.angle)

\* The state after the call of the mutator; a panic leaves it as it was.
call_modifier(modifier, state) ==
    LET called == apply_modifier(modifier, state)
    IN  IF called.panic THEN state ELSE called.self

TurtleRenderer_new(state) ==
    [state |-> state, state_actions |-> HashMap_new, aliases |-> HashMap_new]

\* register() that enters the alias and not the mutator.
TurtleRenderer_register_alias_only(self, arena_id, modifier) ==
    [self EXCEPT !.aliases = HashMap_insert(self.aliases, arena_id, arena_id)]

TurtleRenderer_register(self, arena_id, modifier) ==
    [self EXCEPT !.aliases = HashMap_insert(self.aliases, arena_id, arena_id),
                 !.state_actions = HashMap_insert(self.state_actions, arena_id, modifier)]

\* The aliases after arena_ids[i..] were each aliased to id.
RECURSIVE insert_aliases(_, _, _, _)
insert_aliases(aliases, arena_ids, i, id) ==
    IF i > Len(arena_ids) THEN aliases
    ELSE insert_aliases(HashMap_insert(aliases, arena_ids[i], id), arena_ids, i + 1, id)

\* register_multiple() that gives the mutator to the last id of the list.
TurtleRenderer_register_multiple_to_last(self, arena_ids, modifier) ==
    IF arena_ids # <<>>
    THEN LET id == arena_ids[Len(arena_ids)]
         IN  TurtleRenderer_register(
                 [self EXCEPT !.aliases = insert_aliases(self.aliases, arena_ids, 1, id)],
                 id, modifier)
    ELSE self

TurtleRenderer_register_multiple(self, arena_ids, modifier) ==
    IF arena_ids # <<>>
    THEN LET id == arena_ids[1]
         IN  TurtleRenderer_register(
                 [self EXCEPT !.aliases = insert_aliases(self.aliases, arena_ids, 1, id)],
                 id, modifier)
    ELSE self

\* One round of the loop of compute(), on the id `arena_id`.
compute_one_unaliased(self, arena_id) ==
    IF arena_id \in DOMAIN self.state_actions
    THEN [self EXCEPT !.state = call_modifier(self.state_actions[arena_id], self.state)]
    ELSE self

\* The id an alias chain that starts at arena_id ends at, after at most
\* `fuel` links.
RECURSIVE alias_end(_, _, _)
alias_end(aliases, arena_id, fuel) ==
    IF fuel = 0 \/ arena_id \notin DOMAIN aliases \/ aliases[arena_id] = arena_id
    THEN arena_id
    ELSE alias_end(aliases, aliases[arena_id], fuel - 1)

\* One round of the loop of compute() that follows aliases of aliases.
compute_one_chained(self, arena_id) ==
    IF arena_id \in DOMAIN self.aliases
    THEN LET alias == alias_end(self.aliases, arena_id, HashMap_len(self.aliases))
         IN  IF alias \in DOMAIN self.state_actions
             THEN [self EXCEPT !.state = call_modifier(self.state_actions[alias], self.state)]
             ELSE self
    ELSE self

compute_one(self, arena_id) ==
    IF arena_id \in DOMAIN self.aliases
    THEN LET alias == self.aliases[arena_id]
         IN  IF alias \in DOMAIN self.state_actions
             THEN [self EXCEPT !.state = call_modifier(self.state_actions[alias], self.state)]
             ELSE self
    ELSE self

RECURSIVE compute_from(_, _, _)
compute_from(self, system_state, i) ==
    IF i > Len(system_state) THEN self
    ELSE compute_from(compute_one(self, system_state[i]), system_state, i + 1)

TurtleRenderer_compute(self, system_state) == compute_from(self, system_state, 1)

\* ---------------------------------------------------- TurtleLSystemBuilder
\* char::is_whitespace, of the characters of NameChars.
is_whitespace(c) == c \in {" ", "\t", "\n"}

\* \w of the regex crate, of the characters the builder is driven with.
is_word(c) == c \in {"A", "B", "C"}

\* str::split_whitespace: the maximal runs of non-whitespace, in order.
RECURSIVE split_from(_, _, _)
split_from(s, i, part) ==
    IF i > Len(s) THEN (IF part = <<>> THEN <<>> ELSE <<part>>)
    ELSE IF is_whitespace(s[i])
         THEN (IF part = <<>> THEN <<>> ELSE <<part>>) \o split_from(s, i + 1, <<>>)
         ELSE split_from(s, i + 1, Append(part, s[i]))

split_whitespace(s) == split_from(s, 1, <<>>)

\* A TurtleAction is [kind |-> "Nothing"], [kind |-> "Push"], [kind |-> "Pop"],
\* [kind |-> "Forward", distance |-> d] or [kind |-> "Rotate", angle |-> a].
TurtleLSystemState_new == [angle |-> 0, angle_stack |-> <<>>, turtle |-> SimpleTurtle_new]

TurtleLSystemBuilder_new ==
    [builder |-> LSystemBuilder_new, actions |-> HashMap_new,
     tokens |-> HashMap_new, global_rotate |-> 0]

TurtleLSystemBuilder_rotate(self, angle) == [self EXCEPT !.global_rotate = angle]

TurtleLSystemBuilder_token(self, ident, action) ==
    LET token == LSystemBuilder_token(self.builder, ident)
    IN  IF ~token.ret.ok
        THEN Done([self EXCEPT !.builder = token.self], Err(token.ret.err))
        ELSE Done([self EXCEPT
                      !.builder = token.self,
                      !.tokens = HashMap_insert(self.tokens, ident, token.ret.val),
                      !.actions = HashMap_insert(self.actions, token.ret.val, action)],
                  Ok(Unit))

TurtleLSystemBuilder_get_token(self, token) ==
    IF token \in DOMAIN self.tokens THEN Ok(self.tokens[token])
    ELSE Err(UnknownToken(token))

\* get_token()? on parts[i..], in order: the ids found, or the first error.
RECURSIVE get_tokens_from(_, _, _, _)
get_tokens_from(self, parts, i, found) ==
    IF i > Len(parts) THEN Ok(found)
    ELSE LET token == TurtleLSystemBuilder_get_token(self, parts[i])
         IN  IF ~token.ok THEN token
             ELSE get_tokens_from(self, parts, i + 1, Append(found, token.val))

TurtleLSystemBuilder_axiom(self, ident) ==
    LET axiom == get_tokens_from(self, split_whitespace(ident), 1, <<>>)
    IN  IF ~axiom.ok THEN Done(self, axiom)
        ELSE IF Len(axiom.val) = 0 THEN Panic
        ELSE LET set == LSystemBuilder_axiom(self.builder, axiom.val)
             IN  IF ~set.ret.ok
                 THEN Done([self EXCEPT !.builder = set.self], Err(set.ret.err))
                 ELSE Done([self EXCEPT !.builder = set.self], Ok(Unit))

\* The match of \s*(\w)\s*=>\s*((?:\s*\S+\s*)*)\s* that Regex::captures finds,
\* the leftmost one.  The places where (\w) can stand are those of a word
\* character that is followed, after whitespace only, by "=>"; the match that
\* starts leftmost has (\w) on the first of them.  Group 2 is greedy and takes
\* all that follows the "=>" and its whitespace, up to the end of the string.
ArrowAfter(rule, q) ==
    IF \E e \in (q + 2)..Len(rule) :
           /\ rule[e - 1] = "=" /\ rule[e] = ">"
           /\ \A k \in (q + 1)..(e - 2) : is_whitespace(rule[k])
    THEN Some(CHOOSE e \in (q + 2)..Len(rule) :
                  /\ rule[e - 1] = "=" /\ rule[e] = ">"
                  /\ \A k \in (q + 1)..(e - 2) : is_whitespace(rule[k]))
    ELSE None

Regex_captures(rule) ==
    LET places == {q \in 1..Len(rule) : is_word(rule[q]) /\ ArrowAfter(rule, q).some}
    IN  IF places = {} THEN None
        ELSE LET q == CHOOSE q \in places : \A r \in places : q <= r
                 e == ArrowAfter(rule, q).val
                 rest == SubSeq(rule, e + 1, Len(rule))
                 blanks == CHOOSE n \in 0..Len(rest) :
                               /\ \A k \in 1..n : is_whitespace(rest[k])
                               /\ n < Len(rest) => ~is_whitespace(rest[n + 1])
             IN  Some(<<SubSeq(rule, q, q), SubSeq(rest, blanks + 1, Len(rest))>>)

TurtleLSystemBuilder_rule(self, rule) ==
    LET cap == Regex_captures(rule)
    IN  IF ~cap.some THEN Done(self, Err(InvalidRule(rule)))
        ELSE LET lhs == TurtleLSystemBuilder_get_token(self, cap.val[1])
             IN  IF ~lhs.ok THEN Done(self, lhs)
                 ELSE LET rhs == get_tokens_from(self, split_whitespace(cap.val[2]), 1, <<>>)
                      IN  IF ~rhs.ok THEN Done(self, rhs)
                          ELSE LET added == LSystemBuilder_transformation_rule(
                                                self.builder, lhs.val, rhs.val)
                               IN  IF ~added.ret.ok
                                   THEN Done([self EXCEPT !.builder = added.self],
                                             Err(added.ret.err))
                                   ELSE Done([self EXCEPT !.builder = added.self],
                                             Ok(Unit))

\* The mutator finish() registers for `action`: the action itself, with the
\* global rotation a Forward captures.
modifier_of(action, global_rotate) ==
    IF action.kind = "Forward"
    THEN [kind |-> "Forward", distance |-> action.distance, global_rotate |-> global_rotate]
    ELSE action

\* The loop of finish() over the (id, action) pairs of `ids`.  The ids are
\* distinct and a register() touches the entries of its id only, so the order
\* the HashMap yields them in does not show; they are taken in rising order.
RECURSIVE register_actions(_, _, _, _)
register_actions(renderer, actions, ids, global_rotate) ==
    IF ids = {} THEN renderer
    ELSE LET id == CHOOSE i \in ids : \A j \in ids : i <= j
             registered ==
                 IF actions[id].kind = "Nothing" THEN renderer
                 ELSE TurtleRenderer_register(renderer, id,
                                              modifier_of(actions[id], global_rotate))
         IN  register_actions(registered, actions, ids \ {id}, global_rotate)

TurtleLSystemBuilder_finish(self) ==
    LET renderer == register_actions(TurtleRenderer_new(TurtleLSystemState_new),
                                     self.actions, DOMAIN self.actions,
                                     self.global_rotate)
        finished == LSystemBuilder_finish(self.builder)
    IN  IF finished.panic THEN Panic
        ELSE IF ~finished.ret.ok THEN Done(Unit, Err(finished.ret.err))
        ELSE Done(Unit, Ok(<<finished.ret.val, renderer>>))

\* ------------------------------------------------------- a drawing system
\* The token() calls made on the builder whose renderer is driven: F, +, -,
\* [, ] and X.  The angle of - is -90 - 2982615 * 360.
DrawingTokens ==
    << << <<"F">>, [kind |-> "Forward", distance |-> 1] >>,
       << <<"+">>, [kind |-> "Rotate", angle |-> 90] >>,
       << <<"-">>, [kind |-> "Rotate", angle |-> 0 - 1073741490] >>,
       << <<"[">>, [kind |-> "Push"] >>,
       << <<"]">>, [kind |-> "Pop"] >>,
       << <<"X">>, [kind |-> "Nothing"] >> >>

\* The builder after token() was called with tokens[i..], in order.
RECURSIVE with_tokens(_, _, _)
with_tokens(self, tokens, i) ==
    IF i > Len(tokens) THEN self
    ELSE with_tokens(TurtleLSystemBuilder_token(self, tokens[i][1], tokens[i][2]).self,
                     tokens, i + 1)

\* builder.token(..) six times, builder.axiom("F"), builder.rotate(90)
DrawingBuilder ==
    TurtleLSystemBuilder_rotate(
        TurtleLSystemBuilder_axiom(
            with_tokens(TurtleLSystemBuilder_new, DrawingTokens, 1), <<"F">>).self,
        90)

\* let (system, renderer) = builder.finish()?
DrawingRenderer == TurtleLSystemBuilder_finish(DrawingBuilder).ret.val[2]

\* ------------------------------------------------------ the video renderer
\* draw_line_mut: the buffer with the pixels of the line set.  A buffer is
\* known by the lines whose pixels are set in it.
draw_line_mut(buffer, line) == buffer \cup {line}

\* The test on skip_by that emits a frame after every skip_by-th line, the
\* last of each group.
emits_last_of_group(skip_by, frame_counter) ==
    skip_by = 0 \/ (frame_counter + 1) % skip_by = 0

\* options.skip_by == 0 || frame_counter % options.skip_by == 0
emits(skip_by, frame_counter) == skip_by = 0 \/ frame_counter % skip_by = 0

\* A frame writer that saves the buffer of the main thread.
frame_written_shared(worker, buffer) == buffer

\* What a frame writer saves: its local_buffer, whatever `buffer` has become.
frame_written(worker, buffer) == worker.local_buffer

\* The state before render() is called.  pc is "idle", "drawing" (in the loop
\* over the lines), "joining" (in the loop over the workers), "assembled"
\* (the GIF is written), "done" (render() has returned) or "panicked".  A
\* worker is [filename, local_buffer, state, after_line]: state is "running",
\* "saved" or "failed", and after_line is the frame_counter it was spawned at.
\* File names are known by their frame number; dir.frames holds the content
\* of the files of the directory.
VideoIdle ==
    [pc |-> "idle", skip_by |-> 0, lines |-> <<>>, frame_counter |-> 0,
     absolute_frame_counter |-> 0, buffer |-> {}, files |-> <<>>, workers |-> <<>>,
     next_join |-> 1, dir |-> [exists |-> FALSE, frames |-> <<>>], output |-> <<>>]

\* ------------------------------------------------------------------- state
VARIABLES
    pc,        \* "building", "built", "failed" (finish returned Err), "panicked"
    builder,   \* the LSystemBuilder; Moved once finish has consumed it
    system,    \* the LSystem finish returned
    last,      \* the most recent call: [op, ret]
    before,    \* the LSystem as the most recent call on it found it
    origin,    \* "finish" or "reset": the call the trace starts after
    trace,     \* the step/step_by calls since the system was built or reset
    built,     \* the LSystem as finish returned it
    ruled      \* the predecessors of the rules the consumed builder held

\* The calls on the builder.
VARIABLES
    args,      \* the arguments of the most recent call on a builder or an arena
    prior,     \* the builder as the most recent call on it found it
    clean,     \* the builder the calls that returned Ok make, made in order
    accepted,  \* the ids of the most recent axiom() call that returned Ok, if any
    refused    \* TRUE if an axiom() call on the builder at hand returned Err

\* A second builder, and what it hands out.
VARIABLES
    other,     \* another LSystemBuilder instance
    obtained,  \* the ids the token() calls on the other builder returned
    other_was, \* the other builder as the most recent call on it found it
    handed,    \* the ids the token() calls on the other builder returned, in
               \* call order
    spurned    \* TRUE if a token() call on the other builder returned Err

\* An Arena<&str> of its own, outside any builder.
VARIABLES
    arena,      \* the Arena
    enumerable, \* the EnumerableArena of the most recent enumerate(), if alive
    entries,    \* per push(), in order: the id it returned and the value last
                \* written under that id (by the push or through get_mut)
    yielded     \* what the next() calls on the live EnumerableArena returned

\* A BaseTurtle of its own.
VARIABLES
    ncalls,    \* how many calls the turtle, renderer or turtle builder got
    base,      \* the BaseTurtle
    was,       \* the BaseTurtle as the most recent call on it found it
    pen,       \* the most recent of pen_up() (FALSE) and pen_down() (TRUE)
    pen_moves  \* per delta_move() made after pen_down() or before any pen_up(),
               \* in call order: where the turtle stood and the delta passed

base_vars == <<base, was, pen, pen_moves>>

\* A SimpleTurtle, a StackTurtle and a LatticeTurtle of their own.
VARIABLES
    aborted,        \* TRUE once a call on a turtle or turtle builder panicked
    simple,         \* the SimpleTurtle
    simple_was,     \* the SimpleTurtle as the most recent call on it found it
    marks,          \* per push() no later pop() has answered yet, oldest first:
                    \* the x(), y() and heading the turtle had when it was made
    matched,        \* the mark of the push() the most recent pop() answered
    inner_pen,      \* the most recent of inner_mut().pen_up() (FALSE) and
                    \* inner_mut().pen_down() (TRUE) on the SimpleTurtle
    stack_turtle,   \* the StackTurtle
    lattice_turtle, \* the LatticeTurtle
    pushes,         \* per turtle: its push() calls no later pop() has answered
    found,          \* `pushes` of the turtle of the most recent call, before it
    lattice_was,    \* the LatticeTurtle before the most recent call on it
    lattice_marks,  \* per push() on the LatticeTurtle no later pop() has
                    \* answered yet, oldest first: its (x, y) at the push()
    lattice_matched, \* the mark of the push() its most recent pop() answered
    lattice_pen     \* the most recent of inner_mut().pen_up() (FALSE) and
                    \* inner_mut().pen_down() (TRUE) on the LatticeTurtle

simple_vars == <<simple, simple_was, marks, matched, inner_pen>>
lattice_history == <<lattice_was, lattice_marks, lattice_matched, lattice_pen>>
directional_vars == <<stack_turtle, lattice_turtle, pushes, found, lattice_history>>

\* A TurtleRenderer<Vec<&str>> of its own; every mutator registered with it
\* pushes its own name to the state.
VARIABLES
    renderer,      \* the TurtleRenderer
    renderer_was,  \* the TurtleRenderer as the most recent call on it found it
    earlier,       \* the call on it before the most recent one: [op, args]
    opening        \* the first call made on it: [op, args]

renderer_vars == <<renderer, renderer_was, earlier, opening>>

\* A TurtleLSystemBuilder of its own.
VARIABLES
    turtle_builder,     \* the TurtleLSystemBuilder; Moved once finish() took it
    turtle_builder_was  \* the TurtleLSystemBuilder as the most recent call on
                        \* it found it

turtle_builder_vars == <<turtle_builder, turtle_builder_was>>

\* The renderer finish() returns for the builder DrawingBuilder, computing: the
\* tokens of the system state are handed to it one by one.
VARIABLES
    drawing,       \* the TurtleRenderer<TurtleLSystemState>
    drawing_was,   \* `drawing` before the most recent token
    fed,           \* the number of tokens handed to it
    saved,         \* per Push token no later Pop token has answered yet,
                   \* oldest first: the angle, x(), y() and heading at the Push
    answered       \* the entry of `saved` the most recent Pop token answered

drawing_vars == <<drawing, drawing_was, fed, saved, answered>>

\* render() with VideoRendererOptions: its locals, its frame writers and the
\* temporary directory.
VARIABLES
    video          \* see VideoIdle

render_vars == <<drawing_vars, video>>

system_vars == <<pc, system, before, origin, trace, built, ruled>>
builder_vars == <<builder, prior, clean, accepted, refused>>
other_vars == <<other, obtained, other_was, handed, spurned>>
arena_vars == <<arena, enumerable, entries, yielded>>

lsystem_vars == <<system_vars, builder_vars, other_vars, arena_vars>>
turtle_vars == <<ncalls, aborted, base_vars, simple_vars, directional_vars, renderer_vars,
                 turtle_builder_vars, render_vars>>

vars == <<lsystem_vars, turtle_vars, last, args>>

\* The value of `builder` after finish(self) has taken it.
Moved == [moved |-> TRUE]

\* The value of `system` while there is none.
NoSystem == LSystem_new(Arena_new, <<>>, HashMap_new)

Call(op, ret) == [op |-> op, ret |-> ret]

Init ==
    /\ pc = "building"
    /\ builder = LSystemBuilder_new
    /\ system = NoSystem
    /\ last = Call("new", Unit)
    /\ before = NoSystem
    /\ origin = "none"
    /\ trace = <<>>
    /\ built = NoSystem
    /\ ruled = {}
    /\ args = <<>>
    /\ prior = LSystemBuilder_new
    /\ clean = LSystemBuilder_new
    /\ accepted = None
    /\ refused = FALSE
    /\ other = LSystemBuilder_new
    /\ obtained = {}
    /\ other_was = LSystemBuilder_new
    /\ handed = <<>>
    /\ spurned = FALSE
    /\ arena = Arena_new
    /\ enumerable = None
    /\ entries = <<>>
    /\ yielded = <<>>
    /\ ncalls = 0
    /\ base = BaseTurtle_new
    /\ was = BaseTurtle_new
    /\ pen = TRUE
    /\ pen_moves = <<>>
    /\ aborted = FALSE
    /\ simple = SimpleTurtle_new
    /\ simple_was = SimpleTurtle_new
    /\ marks = <<>>
    /\ matched = None
    /\ inner_pen = TRUE
    /\ stack_turtle = StackTurtle_new
    /\ lattice_turtle = LatticeTurtle_grid
    /\ pushes = [stack |-> 0, lattice |-> 0]
    /\ found = 0
    /\ lattice_was = LatticeTurtle_grid
    /\ lattice_marks = <<>>
    /\ lattice_matched = None
    /\ lattice_pen = TRUE
    /\ renderer = TurtleRenderer_new(<<>>)
    /\ renderer_was = TurtleRenderer_new(<<>>)
    /\ earlier = [op |-> "new", args |-> <<>>]
    /\ opening = [op |-> "new", args |-> <<>>]
    /\ turtle_builder = TurtleLSystemBuilder_new
    /\ turtle_builder_was = TurtleLSystemBuilder_new
    /\ drawing = DrawingRenderer
    /\ drawing_was = DrawingRenderer
    /\ fed = 0
    /\ saved = <<>>
    /\ answered = None
    /\ video = VideoIdle

\* ----------------------------------------------------------- builder calls
Token(name) ==
    /\ pc = "building"
    /\ LET r == LSystemBuilder_token(builder, name)
       IN  /\ Arena_len(r.self.arena) <= MaxTokens
           /\ builder' = r.self
           /\ last' = Call("token", r.ret)
    /\ args' = <<name>>
    /\ prior' = builder
    /\ clean' = LSystemBuilder_token(clean, name).self
    /\ UNCHANGED <<system_vars, accepted, refused, other_vars, arena_vars, turtle_vars>>

TransformationRule(predecessor, successor) ==
    /\ pc = "building"
    /\ LET r == LSystemBuilder_transformation_rule(builder, predecessor, successor)
       IN  /\ Len(r.self.rules) <= MaxRules
           /\ builder' = r.self
           /\ last' = Call("transformation_rule", r.ret)
           /\ clean' = IF r.ret.ok
                       THEN LSystemBuilder_transformation_rule(
                                clean, predecessor, successor).self
                       ELSE clean
    /\ args' = <<predecessor, successor>>
    /\ prior' = builder
    /\ UNCHANGED <<system_vars, accepted, refused, other_vars, arena_vars, turtle_vars>>

Axiom(axiom) ==
    /\ pc = "building"
    /\ LET r == LSystemBuilder_axiom(builder, axiom)
       IN  /\ builder' = r.self
           /\ last' = Call("axiom", r.ret)
           /\ clean' = IF r.ret.ok THEN LSystemBuilder_axiom(clean, axiom).self
                       ELSE clean
           /\ accepted' = IF r.ret.ok THEN Some(axiom) ELSE accepted
           /\ refused' = (refused \/ ~r.ret.ok)
    /\ args' = <<axiom>>
    /\ prior' = builder
    /\ UNCHANGED <<system_vars, other_vars, arena_vars, turtle_vars>>

Finish ==
    /\ pc = "building"
    /\ LET r == LSystemBuilder_finish(builder)
       IN  IF r.panic
           THEN /\ pc' = "panicked"
                /\ last' = Call("finish", Unit)
                /\ UNCHANGED <<system, origin, built>>
           ELSE IF r.ret.ok
           THEN /\ pc' = "built"
                /\ system' = r.ret.val
                /\ built' = r.ret.val
                /\ origin' = "finish"
                /\ last' = Call("finish", Ok(Unit))
           ELSE /\ pc' = "failed"
                /\ last' = Call("finish", r.ret)
                /\ UNCHANGED <<system, origin, built>>
    /\ builder' = Moved
    /\ prior' = builder
    /\ args' = <<>>
    /\ ruled' = {builder.rules[i].predecessor : i \in 1..Len(builder.rules)}
    /\ UNCHANGED <<before, trace, clean, accepted, refused, other_vars, arena_vars, turtle_vars>>

\* ------------------------------------------------------------ system calls
\* A call on the built system with outcome r; a mutating call is recorded in
\* the trace as entry.
SystemCall(op, r, trace_after) ==
    /\ before' = system
    /\ IF r.panic
       THEN pc' = "panicked" /\ last' = Call(op, Unit) /\ UNCHANGED <<system, trace>>
       ELSE /\ system' = r.self
            /\ last' = Call(op, r.ret)
            /\ trace' = trace_after
            /\ UNCHANGED pc
    /\ prior' = Moved
    /\ clean' = Moved
    /\ refused' = FALSE
    /\ args' = <<>>
    /\ UNCHANGED <<builder, built, ruled, accepted, other_vars, arena_vars, turtle_vars>>

Step ==
    /\ pc = "built"
    /\ Len(trace) < MaxTrace
    /\ system.steps + 1 <= MaxSteps
    /\ SystemCall("step", LSystem_step(system),
                  Append(trace, [op |-> "step", n |-> 1]))
    /\ UNCHANGED origin

StepBy(n) ==
    /\ pc = "built"
    /\ Len(trace) < MaxTrace
    /\ system.steps + n <= MaxSteps
    /\ SystemCall("step_by", LSystem_step_by(system, n),
                  Append(trace, [op |-> "step_by", n |-> n]))
    /\ UNCHANGED origin

Reset ==
    /\ pc = "built"
    /\ SystemCall("reset", LSystem_reset(system), <<>>)
    /\ origin' = "reset"

Render ==
    /\ pc = "built"
    /\ SystemCall("render", LSystem_render(system), trace)
    /\ UNCHANGED origin

GetState ==
    /\ pc = "built"
    /\ SystemCall("get_state", LSystem_get_state(system), trace)
    /\ UNCHANGED origin

Steps ==
    /\ pc = "built"
    /\ SystemCall("steps", LSystem_steps(system), trace)
    /\ UNCHANGED origin

Next ==
    \/ pc = "building" /\ \E name \in Names(builder.arena) : Token(name)
    \/ \E predecessor \in Ids, successor \in IdSeqs :
          TransformationRule(predecessor, successor)
    \/ \E axiom \in IdSeqs : Axiom(axiom)
    \/ Finish
    \/ Step
    \/ \E n \in 0..MaxSteps : StepBy(n)
    \/ Reset
    \/ Render
    \/ GetState
    \/ Steps

Spec == Init /\ [][Next]_vars

\* ------------------------------------------------------------ two builders
\* token() on the other builder.
OtherToken(name) ==
    /\ pc = "building"
    /\ LET r == LSystemBuilder_token(other, name)
       IN  /\ Arena_len(r.self.arena) <= MaxTokens
           /\ other' = r.self
           /\ obtained' = IF r.ret.ok THEN obtained \cup {r.ret.val} ELSE obtained
           /\ handed' = IF r.ret.ok THEN Append(handed, r.ret.val) ELSE handed
           /\ spurned' = (spurned \/ ~r.ret.ok)
           /\ other_was' = other
           /\ last' = Call("other.token", r.ret)
    /\ args' = <<name>>
    /\ UNCHANGED <<system_vars, builder_vars, arena_vars, turtle_vars>>

\* Two builders registering tokens; axiom() and transformation_rule() of the
\* one are called with ids the token() calls of the other returned.
NextBuilders ==
    \/ \E name \in Names(other.arena) : OtherToken(name)
    \/ \E name \in Names(builder.arena) : Token(name)
    \/ \E id \in obtained : Axiom(<<id>>)
    \/ \E predecessor \in obtained :
          \E successor \in {<<>>} \cup {<<id>> : id \in obtained} :
             TransformationRule(predecessor, successor)

SpecBuilders == Init /\ [][NextBuilders]_vars

\* Two builders registering tokens side by side, the other one under names
\* with and without whitespace.
NextTokens ==
    \/ \E name \in WhitespaceNames(other.arena) : OtherToken(name)
    \/ \E name \in Names(builder.arena) : Token(name)

SpecTokens == Init /\ [][NextTokens]_vars

\* ------------------------------------------------------------- arena calls
\* push and get_mut take &mut self: no EnumerableArena borrows the arena then.
ArenaPush(value) ==
    /\ pc # "panicked"
    /\ ~enumerable.some
    /\ LET r == Arena_push(arena, value)
       IN  /\ Arena_len(r.arena) <= MaxEntries
           /\ arena' = r.arena
           /\ entries' = Append(entries, [id |-> r.id, value |-> value])
           /\ last' = Call("push", r.id)
    /\ args' = <<value>>
    /\ UNCHANGED <<enumerable, yielded, system_vars, builder_vars, other_vars, turtle_vars>>

\* A call that takes &self and returns ret.
ArenaRead(op, arguments, ret) ==
    /\ pc # "panicked"
    /\ last' = Call(op, ret)
    /\ args' = arguments
    /\ UNCHANGED <<arena_vars, system_vars, builder_vars, other_vars, turtle_vars>>

ArenaLen == ArenaRead("len", <<>>, Arena_len(arena))

ArenaGet(id) == ArenaRead("get", <<id>>, Arena_get(arena, id))

ArenaIsValid(id) == ArenaRead("is_valid", <<id>>, Arena_is_valid(arena, id))

ArenaIsValidSlice(slice) ==
    ArenaRead("is_valid_slice", <<slice>>, Arena_is_valid_slice(arena, slice))

\* get_mut(id), and value written through the reference if there is one.
ArenaGetMut(id, value) ==
    /\ pc # "panicked"
    /\ ~enumerable.some
    /\ LET reference == Arena_get_mut(arena, id)
       IN  /\ arena' = IF reference.some THEN write(arena, reference.val, value)
                       ELSE arena
           /\ entries' = IF reference.some
                         THEN [k \in DOMAIN entries |->
                                 IF entries[k].id = id
                                 THEN [entries[k] EXCEPT !.value = value]
                                 ELSE entries[k]]
                         ELSE entries
           /\ last' = Call("get_mut", reference)
    /\ args' = <<id, value>>
    /\ UNCHANGED <<enumerable, yielded, system_vars, builder_vars, other_vars, turtle_vars>>

\* enumerate(): a fresh EnumerableArena, one made before is dropped.
ArenaEnumerate ==
    /\ pc # "panicked"
    /\ enumerable' = Some(EnumerableArena_new(arena))
    /\ yielded' = <<>>
    /\ last' = Call("enumerate", Unit)
    /\ args' = <<>>
    /\ UNCHANGED <<arena, entries, system_vars, builder_vars, other_vars, turtle_vars>>

EnumerableArenaNext ==
    /\ pc # "panicked"
    /\ enumerable.some
    /\ Len(yielded) < Arena_len(arena) + MaxNones
    /\ LET r == EnumerableArena_next(enumerable.val)
       IN  IF r.panic
           THEN /\ pc' = "panicked"
                /\ last' = Call("next", Unit)
                /\ UNCHANGED <<enumerable, yielded>>
           ELSE /\ enumerable' = Some(r.self)
                /\ yielded' = Append(yielded, r.ret)
                /\ last' = Call("next", r.ret)
                /\ UNCHANGED pc
    /\ args' = <<>>
    /\ UNCHANGED <<arena, entries, system, before, origin, trace, built, ruled,
                   builder_vars, other_vars, turtle_vars>>

\* The EnumerableArena goes out of scope, and its borrow with it.
EnumerableArenaDrop ==
    /\ pc # "panicked"
    /\ enumerable.some
    /\ enumerable' = None
    /\ yielded' = <<>>
    /\ last' = Call("drop", Unit)
    /\ args' = <<>>
    /\ UNCHANGED <<arena, entries, system_vars, builder_vars, other_vars, turtle_vars>>

NextArena ==
    \/ \E value \in ArenaValues : ArenaPush(value)
    \/ ArenaLen
    \/ \E id \in ArenaIds : ArenaGet(id)
    \/ \E id \in ArenaIds : ArenaIsValid(id)
    \/ \E slice \in ArenaSlices : ArenaIsValidSlice(slice)
    \/ \E id \in ArenaIds, value \in ArenaValues : ArenaGetMut(id, value)
    \/ ArenaEnumerate
    \/ EnumerableArenaNext
    \/ EnumerableArenaDrop

SpecArena == Init /\ [][NextArena]_vars

\* ------------------------------------------------------------- token names
\* Token::new(name), the token dropped.
TokenNew(name) ==
    /\ last' = Call("Token::new", Token_new(name))
    /\ args' = <<name>>
    /\ UNCHANGED <<system_vars, builder_vars, other_vars, arena_vars, turtle_vars>>

\* Tokens made of names with and without whitespace, alone and by a builder.
NextToken ==
    \/ \E name \in TokenNames : TokenNew(name)
    \/ \E name \in WhitespaceNames(builder.arena) : Token(name)

SpecToken == Init /\ [][NextToken]_vars

\* ------------------------------------------------------- base turtle calls
\* Deltas and positions passed to the BaseTurtle.
Deltas == {<<F(1), F(0)>>, <<F(-1), F(-1)>>, <<F(0), F(2)>>, <<NaN, F(0)>>,
           <<INFINITY, F(0)>>}

Positions == {<<F(0), F(0)>>, <<F(-2), F(1)>>, <<F(1), NaN>>}

BaseDeltaMove(dx, dy) ==
    /\ ncalls < MaxCalls
    /\ ncalls' = ncalls + 1
    /\ was' = base
    /\ base' = BaseTurtle_delta_move(base, dx, dy)
    /\ pen_moves' = IF pen THEN Append(pen_moves, <<base.x, base.y, dx, dy>>)
                    ELSE pen_moves
    /\ args' = <<dx, dy>>
    /\ last' = Call("delta_move", Unit)
    /\ UNCHANGED <<pen, lsystem_vars, aborted, simple_vars, directional_vars,
                   renderer_vars, turtle_builder_vars,
                   render_vars>>

BaseSetPosition(x, y) ==
    /\ ncalls < MaxCalls
    /\ ncalls' = ncalls + 1
    /\ was' = base
    /\ base' = BaseTurtle_set_position(base, x, y)
    /\ args' = <<x, y>>
    /\ last' = Call("set_position", Unit)
    /\ UNCHANGED <<pen, pen_moves, lsystem_vars, aborted, simple_vars,
                   directional_vars, renderer_vars, turtle_builder_vars,
                   render_vars>>

BasePenUp ==
    /\ ncalls < MaxCalls
    /\ ncalls' = ncalls + 1
    /\ was' = base
    /\ base' = BaseTurtle_pen_up(base)
    /\ pen' = FALSE
    /\ args' = <<>>
    /\ last' = Call("pen_up", Unit)
    /\ UNCHANGED <<pen_moves, lsystem_vars, aborted, simple_vars,
                   directional_vars, renderer_vars, turtle_builder_vars,
                   render_vars>>

BasePenDown ==
    /\ ncalls < MaxCalls
    /\ ncalls' = ncalls + 1
    /\ was' = base
    /\ base' = BaseTurtle_pen_down(base)
    /\ pen' = TRUE
    /\ args' = <<>>
    /\ last' = Call("pen_down", Unit)
    /\ UNCHANGED <<pen_moves, lsystem_vars, aborted, simple_vars,
                   directional_vars, renderer_vars, turtle_builder_vars,
                   render_vars>>

\* x(), y(), lines() and bounds() take &self.
BaseRead ==
    /\ ncalls < MaxCalls
    /\ ncalls' = ncalls + 1
    /\ was' = base
    /\ args' = <<>>
    /\ last' = Call("bounds", <<BaseTurtle_x(base), BaseTurtle_y(base),
                                BaseTurtle_lines(base), BaseTurtle_bounds(base)>>)
    /\ UNCHANGED <<base, pen, pen_moves, lsystem_vars, aborted, simple_vars,
                   directional_vars, renderer_vars, turtle_builder_vars,
                   render_vars>>

NextBaseTurtle ==
    \/ \E d \in Deltas : BaseDeltaMove(d[1], d[2])
    \/ \E p \in Positions : BaseSetPosition(p[1], p[2])
    \/ BasePenUp
    \/ BasePenDown
    \/ BaseRead

SpecBaseTurtle == Init /\ [][NextBaseTurtle]_vars

\* ----------------------------------------------------- simple turtle calls
\* Distances (i32), angles and headings (f64) passed to the SimpleTurtle.
Distances == {0, 2, -1}

Angles == {F(1)}

Headings == {F(0)}

\* What every call on the SimpleTurtle does besides its own effect.
SimpleCall(op, arguments) ==
    /\ ~aborted
    /\ ncalls < MaxCalls
    /\ ncalls' = ncalls + 1
    /\ simple_was' = simple
    /\ args' = arguments
    /\ last' = Call(op, Unit)
    /\ UNCHANGED <<aborted, lsystem_vars, base_vars, directional_vars, renderer_vars,
                   turtle_builder_vars,
                   render_vars>>

SimpleForward(distance) ==
    /\ SimpleCall("forward", <<distance>>)
    /\ simple' = SimpleTurtle_forward(simple, distance)
    /\ UNCHANGED <<marks, matched, inner_pen>>

SimpleLeft(angle) ==
    /\ SimpleCall("left", <<angle>>)
    /\ simple' = SimpleTurtle_left(simple, angle)
    /\ UNCHANGED <<marks, matched, inner_pen>>

SimpleRight(angle) ==
    /\ SimpleCall("right", <<angle>>)
    /\ simple' = SimpleTurtle_right(simple, angle)
    /\ UNCHANGED <<marks, matched, inner_pen>>

SimpleSetHeading(heading) ==
    /\ SimpleCall("set_heading", <<heading>>)
    /\ simple' = SimpleTurtle_set_heading(simple, heading)
    /\ UNCHANGED <<marks, matched, inner_pen>>

SimplePush ==
    /\ SimpleCall("push", <<>>)
    /\ simple' = SimpleTurtle_push(simple)
    /\ marks' = Append(marks, <<simple.turtle.x, simple.turtle.y, simple.heading>>)
    /\ UNCHANGED <<matched, inner_pen>>

SimplePop ==
    /\ SimpleCall("pop", <<>>)
    /\ simple' = SimpleTurtle_pop(simple)
    /\ IF marks = <<>>
       THEN matched' = None /\ UNCHANGED marks
       ELSE /\ matched' = Some(marks[Len(marks)])
            /\ marks' = SubSeq(marks, 1, Len(marks) - 1)
    /\ UNCHANGED inner_pen

\* inner_mut().pen_up() and inner_mut().pen_down()
SimpleInnerPenUp ==
    /\ SimpleCall("inner_mut.pen_up", <<>>)
    /\ simple' = [simple EXCEPT !.turtle = BaseTurtle_pen_up(simple.turtle)]
    /\ inner_pen' = FALSE
    /\ UNCHANGED <<marks, matched>>

SimpleInnerPenDown ==
    /\ SimpleCall("inner_mut.pen_down", <<>>)
    /\ simple' = [simple EXCEPT !.turtle = BaseTurtle_pen_down(simple.turtle)]
    /\ inner_pen' = TRUE
    /\ UNCHANGED <<marks, matched>>

\* inner_mut().set_position(x, y)
SimpleInnerSetPosition(x, y) ==
    /\ SimpleCall("inner_mut.set_position", <<x, y>>)
    /\ simple' = [simple EXCEPT !.turtle = BaseTurtle_set_position(simple.turtle, x, y)]
    /\ UNCHANGED <<marks, matched, inner_pen>>

NextSimpleTurtle ==
    \/ \E distance \in Distances : SimpleForward(distance)
    \/ \E angle \in Angles : SimpleLeft(angle) \/ SimpleRight(angle)
    \/ \E heading \in Headings : SimpleSetHeading(heading)
    \/ SimplePush
    \/ SimplePop
    \/ SimpleInnerPenUp
    \/ SimpleInnerPenDown
    \/ SimpleInnerSetPosition(F(-2), NaN)

SpecSimpleTurtle == Init /\ [][NextSimpleTurtle]_vars

\* ------------------------------------------------ directional turtle calls
\* What every call on the StackTurtle or the LatticeTurtle does besides its
\* own effect; `pushed` is 1 for push(), -1 for pop() and 0 for the others.
DirectionalCall(turtle, op, arguments, pushed) ==
    /\ ~aborted
    /\ ncalls < MaxCalls
    /\ ncalls' = ncalls + 1
    /\ args' = arguments
    /\ last' = Call(op, Unit)
    /\ found' = pushes[turtle]
    /\ pushes' = [pushes EXCEPT ![turtle] =
                      IF @ + pushed < 0 THEN 0 ELSE @ + pushed]
    /\ UNCHANGED <<lsystem_vars, base_vars, simple_vars, renderer_vars,
                   turtle_builder_vars,
                   render_vars>>

StackForward(distance) ==
    /\ DirectionalCall("stack", "StackTurtle.forward", <<distance>>, 0)
    /\ stack_turtle' = StackTurtle_forward(stack_turtle, distance)
    /\ UNCHANGED <<aborted, lattice_turtle, lattice_history>>

StackPush ==
    /\ DirectionalCall("stack", "StackTurtle.push", <<>>, 1)
    /\ stack_turtle' = StackTurtle_push(stack_turtle)
    /\ UNCHANGED <<aborted, lattice_turtle, lattice_history>>

StackPop ==
    /\ DirectionalCall("stack", "StackTurtle.pop", <<>>, -1)
    /\ LET popped == StackTurtle_pop(stack_turtle)
       IN  IF popped.panic
           THEN aborted' = TRUE /\ UNCHANGED stack_turtle
           ELSE stack_turtle' = popped.self /\ UNCHANGED aborted
    /\ UNCHANGED <<lattice_turtle, lattice_history>>

\* The lattices of the LatticeTurtle: the grid, and one whose second basis
\* vector is (1, 1).
Lattices == {Lattice_new(<<F(1), F(0)>>, <<F(0), F(1)>>),
             Lattice_new(<<F(1), F(0)>>, <<F(1), F(1)>>)}

\* LatticeTurtle::new(lattice), in place of the grid turtle, before any call.
LatticeNew(lattice) ==
    /\ ~aborted
    /\ ncalls = 0
    /\ last.op = "new"
    /\ last' = Call("LatticeTurtle.new", Unit)
    /\ args' = <<lattice>>
    /\ lattice_turtle' = LatticeTurtle_new(lattice)
    /\ lattice_was' = LatticeTurtle_new(lattice)
    /\ UNCHANGED <<lsystem_vars, ncalls, aborted, base_vars, simple_vars, renderer_vars,
                   turtle_builder_vars, render_vars, stack_turtle, pushes, found, lattice_marks,
                   lattice_matched, lattice_pen>>

LatticeForward(distance) ==
    /\ DirectionalCall("lattice", "LatticeTurtle.forward", <<distance>>, 0)
    /\ lattice_turtle' = LatticeTurtle_forward(lattice_turtle, distance)
    /\ lattice_was' = lattice_turtle
    /\ UNCHANGED <<aborted, stack_turtle, lattice_marks, lattice_matched, lattice_pen>>

LatticePush ==
    /\ DirectionalCall("lattice", "LatticeTurtle.push", <<>>, 1)
    /\ lattice_turtle' = LatticeTurtle_push(lattice_turtle)
    /\ lattice_was' = lattice_turtle
    /\ lattice_marks' = Append(lattice_marks, <<lattice_turtle.x, lattice_turtle.y>>)
    /\ UNCHANGED <<aborted, stack_turtle, lattice_matched, lattice_pen>>

LatticePop ==
    /\ DirectionalCall("lattice", "LatticeTurtle.pop", <<>>, -1)
    /\ LET popped == LatticeTurtle_pop(lattice_turtle)
       IN  IF popped.panic
           THEN aborted' = TRUE /\ UNCHANGED lattice_turtle
           ELSE lattice_turtle' = popped.self /\ UNCHANGED aborted
    /\ lattice_was' = lattice_turtle
    /\ IF lattice_marks = <<>>
       THEN lattice_matched' = None /\ UNCHANGED lattice_marks
       ELSE /\ lattice_matched' = Some(lattice_marks[Len(lattice_marks)])
            /\ lattice_marks' = SubSeq(lattice_marks, 1, Len(lattice_marks) - 1)
    /\ UNCHANGED <<stack_turtle, lattice_pen>>

\* inner_mut().pen_up() on the LatticeTurtle
LatticeInnerPenUp ==
    /\ DirectionalCall("lattice", "LatticeTurtle.inner_mut.pen_up", <<>>, 0)
    /\ lattice_turtle' = [lattice_turtle EXCEPT !.inner = BaseTurtle_pen_up(@)]
    /\ lattice_was' = lattice_turtle
    /\ lattice_pen' = FALSE
    /\ UNCHANGED <<aborted, stack_turtle, lattice_marks, lattice_matched>>

\* inner_mut().pen_down() on the LatticeTurtle
LatticeInnerPenDown ==
    /\ DirectionalCall("lattice", "LatticeTurtle.inner_mut.pen_down", <<>>, 0)
    /\ lattice_turtle' = [lattice_turtle EXCEPT !.inner = BaseTurtle_pen_down(@)]
    /\ lattice_was' = lattice_turtle
    /\ lattice_pen' = TRUE
    /\ UNCHANGED <<aborted, stack_turtle, lattice_marks, lattice_matched>>

NextDirectional ==
    \/ SimpleForward(2)
    \/ SimplePush
    \/ SimplePop
    \/ StackForward(2)
    \/ StackPush
    \/ StackPop
    \/ LatticeForward(<<1, 0>>) \/ LatticeForward(<<0, -1>>)
    \/ LatticePush
    \/ LatticePop
    \/ LatticeInnerPenUp
    \/ LatticeInnerPenDown
    \/ \E lattice \in Lattices : LatticeNew(lattice)

SpecDirectional == Init /\ [][NextDirectional]_vars

\* ----------------------------------------------------------- renderer calls
\* Ids, id lists and mutators passed to the TurtleRenderer, and the system
\* states render() hands to compute().
RendererIds == 0..2

RendererIdLists == {<<>>, <<2, 1>>, <<1, 0>>, <<0, 1, 2>>}

Modifiers == {Pushes("f"), Pushes("g")}

SystemStates == {<<>>, <<0, 1, 2>>, <<2, 1, 1, 0>>}

\* What every call on the TurtleRenderer does besides its own effect.
\* render() takes the renderer by value: no call follows it.
RendererCall(op, arguments) ==
    /\ last.op # "compute"
    /\ ncalls < MaxCalls
    /\ ncalls' = ncalls + 1
    /\ renderer_was' = renderer
    /\ earlier' = [op |-> last.op, args |-> args]
    /\ opening' = IF ncalls = 0 THEN [op |-> op, args |-> arguments] ELSE opening
    /\ args' = arguments
    /\ last' = Call(op, Unit)
    /\ UNCHANGED <<aborted, lsystem_vars, base_vars, simple_vars, directional_vars,
                   turtle_builder_vars,
                   render_vars>>

RendererRegister(arena_id, modifier) ==
    /\ RendererCall("register", <<arena_id, modifier>>)
    /\ renderer' = TurtleRenderer_register(renderer, arena_id, modifier)

RendererRegisterMultiple(arena_ids, modifier) ==
    /\ RendererCall("register_multiple", <<arena_ids, modifier>>)
    /\ renderer' = TurtleRenderer_register_multiple(renderer, arena_ids, modifier)

\* The first statement of render(): compute(system.get_state()).
RendererCompute(system_state) ==
    /\ RendererCall("compute", <<system_state>>)
    /\ renderer' = TurtleRenderer_compute(renderer, system_state)

NextRenderer ==
    \/ \E arena_id \in RendererIds, modifier \in Modifiers :
           RendererRegister(arena_id, modifier)
    \/ \E arena_ids \in RendererIdLists, modifier \in Modifiers :
           RendererRegisterMultiple(arena_ids, modifier)
    \/ \E system_state \in SystemStates : RendererCompute(system_state)

SpecRenderer == Init /\ [][NextRenderer]_vars

\* ----------------------------------------------------- turtle builder calls
\* Token names and actions, axioms, rules and angles passed to the
\* TurtleLSystemBuilder.
TurtleTokens ==
    {<< <<"A">>, [kind |-> "Forward", distance |-> 1] >>,
     << <<"B">>, [kind |-> "Nothing"] >>,
     << <<"A", " ">>, [kind |-> "Push"] >>}

\* "", " ", "A B", "C"
AxiomStrings == {<<>>, <<" ">>, <<"A", " ", "B">>, <<"C">>}

\* "A => A B", "AB=>A", "=> A", "A => C", "C => A", "A =>"
RuleStrings ==
    {<<"A", " ", "=", ">", " ", "A", " ", "B">>,
     <<"A", "B", "=", ">", "A">>,
     <<"=", ">", " ", "A">>,
     <<"A", " ", "=", ">", " ", "C">>,
     <<"C", " ", "=", ">", " ", "A">>,
     <<"A", " ", "=", ">">>}

RotateAngles == {90}

\* What every call on the TurtleLSystemBuilder does with the outcome `done`
\* of the method, besides; a method that takes &mut self leaves what it did
\* before it returned or panicked.
TurtleBuilderCall(op, arguments, done) ==
    /\ ~aborted
    /\ turtle_builder # Moved
    /\ ncalls < MaxCalls
    /\ ncalls' = ncalls + 1
    /\ turtle_builder_was' = turtle_builder
    /\ args' = arguments
    /\ IF done.panic
       THEN aborted' = TRUE /\ last' = Call(op, Unit) /\ UNCHANGED turtle_builder
       ELSE /\ last' = Call(op, done.ret)
            /\ turtle_builder' = IF op = "finish" THEN Moved ELSE done.self
            /\ UNCHANGED aborted
    /\ UNCHANGED <<lsystem_vars, base_vars, simple_vars, directional_vars, renderer_vars,
                   render_vars>>

TurtleRotate(angle) ==
    TurtleBuilderCall("rotate", <<angle>>,
                      Done(TurtleLSystemBuilder_rotate(turtle_builder, angle), Unit))

TurtleToken(token, action) ==
    TurtleBuilderCall("token", <<token, action>>,
                      TurtleLSystemBuilder_token(turtle_builder, token, action))

TurtleAxiom(ident) ==
    TurtleBuilderCall("axiom", <<ident>>, TurtleLSystemBuilder_axiom(turtle_builder, ident))

TurtleRule(rule) ==
    TurtleBuilderCall("rule", <<rule>>, TurtleLSystemBuilder_rule(turtle_builder, rule))

TurtleFinish ==
    TurtleBuilderCall("finish", <<>>, TurtleLSystemBuilder_finish(turtle_builder))

NextTurtleBuilder ==
    \/ \E angle \in RotateAngles : TurtleRotate(angle)
    \/ \E t \in TurtleTokens : TurtleToken(t[1], t[2])
    \/ \E ident \in AxiomStrings : TurtleAxiom(ident)
    \/ \E rule \in RuleStrings : TurtleRule(rule)
    \/ TurtleFinish

SpecTurtleBuilder == Init /\ [][NextTurtleBuilder]_vars

\* ----------------------------------------------- the drawing renderer computes
\* One round of the loop of compute() of the drawing renderer, on the token
\* `arena_id` of the system state.  A mutator that panics ends the program.
Feed(arena_id) ==
    /\ ~aborted
    /\ fed < MaxFed
    /\ fed' = fed + 1
    /\ drawing_was' = drawing
    /\ args' = <<arena_id>>
    /\ last' = Call("compute_one", Unit)
    /\ LET resolves == /\ arena_id \in DOMAIN drawing.aliases
                       /\ drawing.aliases[arena_id] \in DOMAIN drawing.state_actions
       IN  IF resolves /\ apply_modifier(drawing.state_actions[drawing.aliases[arena_id]],
                                         drawing.state).panic
           THEN aborted' = TRUE /\ UNCHANGED drawing
           ELSE drawing' = compute_one(drawing, arena_id) /\ UNCHANGED aborted
    /\ LET kind == DrawingBuilder.actions[arena_id].kind
           turtle == drawing.state.turtle
       IN  CASE kind = "Push" ->
                    /\ saved' = Append(saved, [angle |-> drawing.state.angle,
                                               x |-> turtle.turtle.x, y |-> turtle.turtle.y,
                                               heading |-> turtle.heading])
                    /\ UNCHANGED answered
             [] kind = "Pop" ->
                    IF saved = <<>>
                    THEN answered' = None /\ UNCHANGED saved
                    ELSE /\ answered' = Some(saved[Len(saved)])
                         /\ saved' = SubSeq(saved, 1, Len(saved) - 1)
             [] OTHER -> UNCHANGED <<saved, answered>>
    /\ UNCHANGED <<lsystem_vars, ncalls, base_vars, simple_vars, directional_vars,
                   renderer_vars, turtle_builder_vars, video>>

NextDrawing == \E arena_id \in DOMAIN DrawingBuilder.actions : Feed(arena_id)

SpecDrawing == Init /\ [][NextDrawing]_vars

\* ------------------------------------------------------ rendering a video
\* The lines of the turtle: up to MaxLines segments, "a" or "b" each.
LineLists == UNION {[1..n -> {"a", "b"}] : n \in 0..MaxLines}

VideoStep ==
    UNCHANGED <<lsystem_vars, ncalls, aborted, base_vars, simple_vars, directional_vars,
                renderer_vars, turtle_builder_vars, drawing_vars, last, args>>

\* render() up to the loop over the lines: the buffer is filled, the
\* temporary directory made.
VideoRender(lines, skip_by) ==
    /\ video.pc = "idle"
    /\ video' = [video EXCEPT !.pc = IF lines = <<>> THEN "joining" ELSE "drawing",
                              !.skip_by = skip_by,
                              !.lines = lines,
                              !.dir = [exists |-> TRUE, frames |-> <<>>]]
    /\ VideoStep

\* One round of the loop over the lines: the line is drawn, and a frame
\* writer is spawned with a clone of the buffer if a frame is due.
VideoDrawLine ==
    /\ video.pc = "drawing"
    /\ LET buffer == draw_line_mut(video.buffer, video.lines[video.frame_counter + 1])
           filename == video.absolute_frame_counter
           drawn == [video EXCEPT
                        !.buffer = buffer,
                        !.frame_counter = @ + 1,
                        !.pc = IF video.frame_counter + 1 = Len(video.lines)
                               THEN "joining" ELSE "drawing"]
       IN  IF emits(video.skip_by, video.frame_counter)
           THEN video' = [drawn EXCEPT
                             !.absolute_frame_counter = @ + 1,
                             !.files = Append(@, filename),
                             !.workers = Append(@, [filename |-> filename,
                                                    local_buffer |-> buffer,
                                                    state |-> "running",
                                                    after_line |-> video.frame_counter])]
           ELSE video' = drawn
    /\ VideoStep

\* The frame writer w saves its frame.
WorkerSave(w) ==
    /\ video.workers[w].state = "running"
    /\ video.dir.exists
    /\ video' = [video EXCEPT
                     !.workers[w].state = "saved",
                     !.dir.frames = HashMap_insert(@, video.workers[w].filename,
                                        frame_written(video.workers[w], video.buffer))]
    /\ VideoStep

\* The frame writer w fails to save its frame (File::create or the encoder
\* returns an error) and panics on the unwrap().
WorkerFail(w) ==
    /\ video.workers[w].state = "running"
    /\ video' = [video EXCEPT !.workers[w].state = "failed"]
    /\ VideoStep

\* One round of the loop over the workers: child.join().expect("Failure")
\* waits for the frame writer; if it has panicked, render() panics, and the
\* unwinding drops the handles not joined yet and the temporary directory.
VideoJoin ==
    /\ video.pc = "joining"
    /\ video.next_join <= Len(video.workers)
    /\ video.workers[video.next_join].state # "running"
    /\ IF video.workers[video.next_join].state = "saved"
       THEN video' = [video EXCEPT !.next_join = @ + 1]
       ELSE video' = [video EXCEPT !.pc = "panicked",
                                   !.dir = [exists |-> FALSE, frames |-> <<>>]]
    /\ VideoStep

\* The GIF is put together from the frame files, in the order of `files`.
VideoAssemble ==
    /\ video.pc = "joining"
    /\ video.next_join > Len(video.workers)
    /\ video' = [video EXCEPT
                     !.pc = "assembled",
                     !.output = [k \in 1..Len(video.files) |->
                                    video.dir.frames[video.files[k]]]]
    /\ VideoStep

\* drop(dir): the temporary directory and its files are deleted.
VideoDropDir ==
    /\ video.pc = "assembled"
    /\ video' = [video EXCEPT !.pc = "done",
                              !.dir = [exists |-> FALSE, frames |-> <<>>]]
    /\ VideoStep

NextVideo ==
    \/ \E lines \in LineLists, skip_by \in 0..MaxSkipBy : VideoRender(lines, skip_by)
    \/ VideoDrawLine
    \/ \E w \in 1..Len(video.workers) : WorkerSave(w)
    \/ \E w \in 1..Len(video.workers) : WorkerFail(w)
    \/ VideoJoin
    \/ VideoAssemble
    \/ VideoDropDir

SpecVideo == Init /\ [][NextVideo]_vars

\* ================================================================== claims
\* The calls made on the built system.
OnSystem(op) == pc = "built" /\ last.op = op

\* The argument of the most recent step_by call.
LastN == trace[Len(trace)].n

\* next is the in-order concatenation of rules_map[state[1]], ...,
\* rules_map[state[Len(state)]]: the successor of state[i] occupies the
\* positions after those of the successors of state[1..i-1].
IsConcatenation(rules_map, state, next) ==
    LET off[i \in 0..Len(state)] ==
            IF i = 0 THEN 0 ELSE off[i - 1] + Len(rules_map[state[i]])
    IN  /\ Len(next) = off[Len(state)]
        /\ \A i \in 1..Len(state) :
             \A j \in 1..Len(rules_map[state[i]]) :
                next[off[i - 1] + j] = rules_map[state[i]][j]

\* The Algae grammar: tokens A and B, axiom A, rules A -> AB and B -> A.
IsAlgae(sys) ==
    /\ sys.arena = <<[name |-> <<"A">>], [name |-> <<"B">>]>>
    /\ sys.axiom = <<0>>
    /\ sys.rules_map = (0 :> <<0, 1>>) @@ (1 :> <<0>>)

\* The Algae words after 0, 1, 2, ... steps.
AlgaeWords ==
    << <<"A">>,
       <<"A", "B">>,
       <<"A", "B", "A">>,
       <<"A", "B", "A", "A", "B">>,
       <<"A", "B", "A", "A", "B", "A", "B", "A">>,
       <<"A", "B", "A", "A", "B", "A", "B", "A", "A", "B", "A", "A", "B">> >>

\* A builder after the calls of a script, each call succeeding.
RECURSIVE Scripted(_, _)
Scripted(self, calls) ==
    IF calls = <<>> THEN self
    ELSE LET c == Head(calls)
             r == CASE c.op = "token" -> LSystemBuilder_token(self, c.name)
                    [] c.op = "axiom" -> LSystemBuilder_axiom(self, c.ids)
                    [] c.op = "transformation_rule" ->
                         LSystemBuilder_transformation_rule(self, c.predecessor, c.successor)
         IN  Scripted(r.self, Tail(calls))

\* The fractal binary tree of tests.rs: tokens 0 1 [ ], axiom 0, rules
\* 1 -> 11 and 0 -> 1[0]0.
BinaryTree ==
    LSystemBuilder_finish(Scripted(LSystemBuilder_new,
        << [op |-> "token", name |-> <<"0">>],
           [op |-> "token", name |-> <<"1">>],
           [op |-> "token", name |-> <<"[">>],
           [op |-> "token", name |-> <<"]">>],
           [op |-> "axiom", ids |-> <<0>>],
           [op |-> "transformation_rule", predecessor |-> 1, successor |-> <<1, 1>>],
           [op |-> "transformation_rule", predecessor |-> 0,
            successor |-> <<1, 2, 0, 3, 0>>] >>)).ret.val

BinaryTreeWords ==
    << <<"0">>,
       <<"1", "[", "0", "]", "0">>,
       <<"1", "1", "[", "1", "[", "0", "]", "0", "]", "1", "[", "0", "]", "0">> >>

\* C1: step() replaces the state by the in-order concatenation of the
\* successors of its tokens, each looked up for the token of the old state,
\* and adds exactly 1 to the step counter; the Algae grammar renders A, AB,
\* ABA, ... and the binary tree renders 0, 1[0]0, 11[1[0]0]1[0]0.
C1_StepRewritesInParallel ==
    /\ OnSystem("step") =>
          /\ IsConcatenation(before.rules_map, before.state, system.state)
          /\ system.steps = before.steps + 1
    /\ (pc = "built" /\ IsAlgae(built) /\ system.steps < Len(AlgaeWords)) =>
          LSystem_render(system).ret = AlgaeWords[system.steps + 1]
    /\ LSystem_render(LSystem_step(BinaryTree).self).ret = BinaryTreeWords[2]
    /\ LSystem_render(LSystem_step(LSystem_step(BinaryTree).self).self).ret
          = BinaryTreeWords[3]

\* A step of the Algae system from AB to ABA: two tokens with different
\* successors rewritten in one pass.
C1_Witness ==
    /\ OnSystem("step")
    /\ IsAlgae(built)
    /\ before.state = <<0, 1>>
    /\ system.state = <<0, 1, 0>>
    /\ system.steps = 2

\* The system after n sequential step() calls.
RECURSIVE Stepped(_, _)
Stepped(sys, n) == IF n = 0 THEN sys ELSE LSystem_step(Stepped(sys, n - 1)).self

\* C2: step_by(n) leaves the system exactly as n sequential step() calls
\* leave it, state and step counter; step_by(0) changes neither.
C2_StepByIsRepeatedStep ==
    OnSystem("step_by") =>
       /\ system = Stepped(before, LastN)
       /\ LastN = 0 => (system.state = before.state /\ system.steps = before.steps)

\* step_by(2) on a system whose state it changes.
C2_Witness ==
    /\ OnSystem("step_by")
    /\ LastN = 2
    /\ system.state # before.state
    /\ system.state # LSystem_step(before).self.state

\* C3: starting from the axiom (a system just built or reset), step_by(a)
\* then step_by(b) gives the state that reset() followed by step_by(a + b)
\* gives.
C3_Additivity ==
    (/\ pc = "built"
     /\ Len(trace) = 2
     /\ trace[1].op = "step_by"
     /\ trace[2].op = "step_by") =>
       system.state =
          LSystem_step_by(LSystem_reset(system).self, trace[1].n + trace[2].n).self.state

\* step_by(1) then step_by(2) on the Algae system.
C3_Witness ==
    /\ pc = "built"
    /\ IsAlgae(built)
    /\ trace = << [op |-> "step_by", n |-> 1], [op |-> "step_by", n |-> 2] >>
    /\ system.state = <<0, 1, 0, 0, 1>>

\* C4: reset(); step_by(n) gives the state, and the render() string, that
\* step_by(n) gives on the system as finish returned it, whatever was called
\* before the reset.
C4_Determinism ==
    (/\ pc = "built"
     /\ origin = "reset"
     /\ Len(trace) = 1
     /\ trace[1].op = "step_by") =>
       LET fresh == LSystem_step_by(built, trace[1].n).self
       IN  /\ system.state = fresh.state
           /\ LSystem_render(system).ret = LSystem_render(fresh).ret
           /\ last.op = "render" => last.ret = LSystem_render(fresh).ret

\* render() after reset(); step_by(2) on the Algae system.
C4_Witness ==
    /\ pc = "built"
    /\ IsAlgae(built)
    /\ origin = "reset"
    /\ trace = << [op |-> "step_by", n |-> 2] >>
    /\ last = Call("render", <<"A", "B", "A">>)

\* C5: reset() sets the state to the axiom the system was built with and the
\* step counter to 0; no call on the system changes its axiom, its rule table
\* or its arena.
C5_ResetRestoresAxiom ==
    /\ OnSystem("reset") => (system.state = built.axiom /\ system.steps = 0)
    /\ pc = "built" =>
          /\ system.axiom = built.axiom
          /\ system.rules_map = built.rules_map
          /\ system.arena = built.arena

\* reset() of a system two steps away from its axiom.
C5_Witness ==
    /\ OnSystem("reset")
    /\ before.steps >= 2
    /\ before.state # before.axiom
    /\ system.state = before.axiom

\* The step() applications the calls of a trace make.
RECURSIVE Applications(_)
Applications(calls) ==
    IF calls = <<>> THEN 0 ELSE Head(calls).n + Applications(Tail(calls))

\* C6: steps() is the number of step() applications, each iteration of
\* step_by counted, since finish() or the most recent reset(); it is 0 right
\* after either.
C6_StepsCountsApplications ==
    pc = "built" =>
       /\ LSystem_steps(system).ret = Applications(trace)
       /\ last.op \in {"finish", "reset"} => LSystem_steps(system).ret = 0
       /\ last.op = "steps" => last.ret = Applications(trace)

\* steps() returns 3 after reset(); step(); step_by(2).
C6_Witness ==
    /\ OnSystem("steps")
    /\ origin = "reset"
    /\ trace = << [op |-> "step", n |-> 1], [op |-> "step_by", n |-> 2] >>
    /\ last.ret = 3

\* A token no transformation_rule call registered a rule for.
IsConstant(id) == id \notin ruled

\* C7: a token with no registered rule has the rule token -> [token]; a step
\* of a state of such tokens leaves the state as it is, and a system whose
\* axiom holds only such tokens keeps its state and its render() string.
C7_IdentityRule ==
    pc = "built" =>
       /\ \A id \in 0..(Arena_len(system.arena) - 1) :
             IsConstant(id) => system.rules_map[id] = <<id>>
       /\ (/\ last.op = "step"
           /\ \A i \in 1..Len(before.state) : IsConstant(before.state[i])) =>
             system.state = before.state
       /\ (\A i \in 1..Len(built.axiom) : IsConstant(built.axiom[i])) =>
             /\ system.state = built.axiom
             /\ LSystem_render(system).ret = LSystem_render(built).ret

\* The system of the one token A, no rule, axiom A, rendered after two steps.
C7_Witness ==
    /\ pc = "built"
    /\ ruled = {}
    /\ Arena_len(system.arena) = 1
    /\ built.axiom = <<0>>
    /\ system.steps >= 2
    /\ last = Call("render", <<"A">>)

\* C8: finish() with an axiom set never fails its assert_eq: the rule table
\* it compiles has one entry for each arena id 0..len-1 and no other key.
C8_RuleTableTotal ==
    last.op = "finish" =>
       /\ pc # "panicked"
       /\ pc = "built" =>
             DOMAIN system.rules_map = 0..(Arena_len(system.arena) - 1)

\* finish() of a builder with two tokens and a rule for the second only.
C8_Witness ==
    /\ last.op = "finish"
    /\ pc = "built"
    /\ Arena_len(system.arena) = 2
    /\ ruled = {1}
    /\ system.rules_map[0] = <<0>>

\* C9: every token id of the state of a built system is a valid arena id
\* with an entry in the rule table; the lookup of step() and the unwrap of
\* render() never panic.
C9_StateIdsValid ==
    /\ last.op \in {"step", "step_by", "render"} => pc # "panicked"
    /\ pc = "built" =>
          /\ \A i \in 1..Len(system.state) :
                /\ Arena_is_valid(system.arena, system.state[i])
                /\ system.state[i] \in DOMAIN system.rules_map
          /\ ~LSystem_step(system).panic
          /\ ~LSystem_render(system).panic

\* render() of a state of both tokens, grown by steps after a reset.
C9_Witness ==
    /\ OnSystem("render")
    /\ origin = "reset"
    /\ system.steps >= 2
    /\ Len(system.state) >= 3
    /\ \E i, j \in 1..Len(system.state) : system.state[i] # system.state[j]

\* C10 as stated: step() never shortens the state of a built system.
C10_LengthNonDecreasing ==
    OnSystem("step") => Len(system.state) >= Len(before.state)

\* C10: step() never shortens the state of a system whose rule table has no
\* empty successor.
C10_LengthNonDecreasingWithoutErasure ==
    (/\ OnSystem("step")
     /\ \A id \in DOMAIN before.rules_map : before.rules_map[id] # <<>>) =>
       Len(system.state) >= Len(before.state)

\* A step that lengthens a state of two tokens or more.
C10_Witness ==
    /\ OnSystem("step")
    /\ \A id \in DOMAIN before.rules_map : before.rules_map[id] # <<>>
    /\ Len(before.state) >= 2
    /\ Len(system.state) > Len(before.state)

\* ---------------------------------------------------- claims on the builder
\* A call of op on the builder that is still being built.
OnBuilder(op) == pc = "building" /\ last.op = op

\* The ids under which the arena of a builder holds a token.
OwnIds(self) == {id \in Ids : Arena_get(self.arena, id).some}

\* The first id of ids, in order, that is none of the builder's own.
FirstForeign(self, ids) ==
    ids[CHOOSE i \in 1..Len(ids) :
          /\ ids[i] \notin OwnIds(self)
          /\ \A j \in 1..(i - 1) : ids[j] \in OwnIds(self)]

AllOwn(self, ids) == \A i \in 1..Len(ids) : ids[i] \in OwnIds(self)

C12_AxiomValidatesAndIsKept ==
    /\ OnBuilder("axiom") =>
          IF ~AllOwn(prior, args[1])
          THEN /\ ~last.ret.ok
               /\ last.ret.err.kind = "InvalidArenaId"
               /\ last.ret.err.id \notin OwnIds(prior)
               /\ \E i \in 1..Len(args[1]) : last.ret.err.id = args[1][i]
          ELSE /\ last.ret = Ok(Unit)
               /\ builder.axiom = Some(args[1])
               /\ accepted = Some(args[1])
    /\ (pc = "built" /\ last.op = "finish") =>
          /\ accepted.some
          /\ system.state = accepted.val
          /\ LSystem_get_state(system).ret = accepted.val
    /\ (OnSystem("get_state") /\ trace = <<>>) => last.ret = accepted.val

\* get_state() of a system just built from a builder whose second axiom()
\* call stored two ids.
C12_Witness ==
    /\ OnSystem("get_state")
    /\ origin = "finish"
    /\ trace = <<>>
    /\ accepted = Some(<<0, 1>>)
    /\ last.ret = <<0, 1>>

\* The ids the most recent axiom() or transformation_rule() call was given.
ArgIds ==
    IF last.op = "axiom" THEN {args[1][i] : i \in 1..Len(args[1])}
    ELSE {args[1]} \cup {args[2][i] : i \in 1..Len(args[2])}

\* C13: axiom() and transformation_rule() return InvalidArenaId whenever
\* they are given an id that a token() call on another builder returned,
\* however many tokens their own builder holds.
C13_ForeignIdsRejected ==
    (/\ OnBuilder("axiom") \/ OnBuilder("transformation_rule")
     /\ ArgIds \cap obtained # {}) =>
       /\ ~last.ret.ok
       /\ last.ret.err.kind = "InvalidArenaId"

\* C14: finish() returns MissingAxiom if and only if no axiom() call on the
\* builder returned Ok; an axiom() call that returned Err sets no axiom.
C14_MissingAxiomIffNoneAccepted ==
    last.op = "finish" =>
       /\ (pc = "failed" /\ last.ret = Err(MissingAxiom)) <=> ~accepted.some
       /\ (refused /\ ~accepted.some) => pc = "failed"

\* finish() of a builder with a token whose only axiom() calls were refused.
C14_Witness ==
    /\ last.op = "finish"
    /\ pc = "failed"
    /\ last.ret = Err(MissingAxiom)
    /\ refused
    /\ Arena_len(prior.arena) >= 1

\* C16: an axiom() or transformation_rule() call that returns Err leaves the
\* arena, the axiom and the rule list of the builder as it found them; the
\* builder is at all times the one the calls that returned Ok make, and
\* finish() returns what it returns for that builder.
C16_FailedCallsLeaveNoTrace ==
    /\ ((OnBuilder("axiom") \/ OnBuilder("transformation_rule")) /\ ~last.ret.ok) =>
          /\ builder.arena = prior.arena
          /\ builder.axiom = prior.axiom
          /\ builder.rules = prior.rules
    /\ pc = "building" => builder = clean
    /\ (last.op = "finish" /\ pc = "built") =>
          system = LSystemBuilder_finish(clean).ret.val
    /\ (last.op = "finish" /\ pc = "failed") =>
          last.ret = LSystemBuilder_finish(clean).ret

\* A refused axiom() call on a builder that holds an axiom and a rule.
C16_Witness ==
    /\ OnBuilder("axiom")
    /\ last.ret = Err(InvalidArenaId(1))
    /\ args = << <<0, 1>> >>
    /\ prior.rules # <<>>
    /\ accepted = Some(<<0>>)
    /\ builder.axiom = Some(<<0>>)

\* A later rule of the list has the predecessor of rule i.
Superseded(rules, i) ==
    \E j \in (i + 1)..Len(rules) : rules[j].predecessor = rules[i].predecessor

\* The rules i.. of the list that no later rule supersedes, in order.
RECURSIVE Effective(_, _)
Effective(rules, i) ==
    IF i > Len(rules) THEN <<>>
    ELSE (IF Superseded(rules, i) THEN <<>> ELSE <<rules[i]>>)
            \o Effective(rules, i + 1)

\* C17: the rule table finish() compiles has one entry per token, and the
\* entry of a predecessor with registered rules is the successor of the last
\* of them; the system is the one the builder without the earlier rules for
\* the same predecessor gives, so that those change no step.
C17_LastRuleWins ==
    (last.op = "finish" /\ pc = "built") =>
       /\ HashMap_len(system.rules_map) = Arena_len(system.arena)
       /\ \A i \in 1..Len(prior.rules) :
             ~Superseded(prior.rules, i) =>
                system.rules_map[prior.rules[i].predecessor] = prior.rules[i].successor
       /\ system =
             LSystemBuilder_finish(
                [prior EXCEPT !.rules = Effective(prior.rules, 1)]).ret.val

\* finish() of a builder with the rules A -> A and then A -> AB.
C17_Witness ==
    /\ last.op = "finish"
    /\ pc = "built"
    /\ prior.rules = << [predecessor |-> 0, successor |-> <<0>>],
                        [predecessor |-> 0, successor |-> <<0, 1>>] >>
    /\ system.rules_map[0] = <<0, 1>>

\* C15: Token::new and LSystemBuilder::token return InvalidToken for every
\* name with a whitespace character in it, and Ok for every other name.
C15_WhitespaceRejected ==
    last.op \in {"Token::new", "token"} =>
       IF \E i \in 1..Len(args[1]) : is_whitespace(args[1][i])
       THEN last.ret = Err(InvalidToken(args[1]))
       ELSE last.ret.ok

\* ------------------------------------------------------ claims on the arena
\* C18: the k-th push() returns ArenaId(k - 1), the length before it, and
\* len() is the number of pushes made; under every id a push returned, get()
\* returns the value last written there, by the push or through get_mut,
\* whatever was pushed or written elsewhere since.
C18_PushAppendsAndIdsAreStable ==
    /\ Arena_len(arena) = Len(entries)
    /\ \A k \in 1..Len(entries) :
          /\ entries[k].id = k - 1
          /\ Arena_get(arena, entries[k].id) = Some(entries[k].value)
    /\ last.op = "push" =>
          /\ last.ret = Len(entries) - 1
          /\ Arena_get(arena, last.ret) = Some(args[1])
    /\ last.op = "len" => last.ret = Len(entries)
    /\ (last.op = "get" /\ \E k \in 1..Len(entries) : entries[k].id = args[1]) =>
          last.ret = Some(entries[args[1] + 1].value)

\* get() under the first id of an arena of two values: the second push, and
\* what was written under the second id, left the first value where it was.
C18_Witness ==
    /\ last.op = "get"
    /\ args = <<0>>
    /\ last.ret = Some("Hello!")
    /\ entries = << [id |-> 0, value |-> "Hello!"], [id |-> 1, value |-> "Jenkins"] >>
    /\ Arena_get(arena, 1) = Some("Jenkins")

\* C19: is_valid(id) holds exactly if id is below the length, exactly if
\* get(id) returns a value and exactly if get_mut(id) returns a reference;
\* get and get_mut of any other id return None and nothing panics;
\* is_valid_slice holds exactly if every id of the slice is below the length.
C19_ValidIffPresent ==
    /\ pc # "panicked"
    /\ \A id \in ArenaIds :
          /\ Arena_is_valid(arena, id) <=> id < Arena_len(arena)
          /\ Arena_is_valid(arena, id) <=> Arena_get(arena, id).some
          /\ Arena_is_valid(arena, id) <=> Arena_get_mut(arena, id).some
    /\ \A slice \in ArenaSlices :
          Arena_is_valid_slice(arena, slice) <=>
             \A i \in 1..Len(slice) : slice[i] < Arena_len(arena)
    /\ Arena_is_valid_slice(arena, <<>>)
    /\ last.op = "is_valid" => last.ret = (args[1] < Len(entries))
    /\ last.op = "get" => last.ret.some = (args[1] < Len(entries))
    /\ last.op = "get_mut" => last.ret.some = (args[1] < Len(entries))
    /\ last.op = "is_valid_slice" =>
          last.ret = (\A i \in 1..Len(args[1]) : args[1][i] < Len(entries))

\* get_mut() of the id one past the last one of an arena of two values.
C19_Witness ==
    /\ last.op = "get_mut"
    /\ args[1] = 2
    /\ last.ret = None
    /\ Arena_len(arena) = 2
    /\ Arena_is_valid(arena, 1)
    /\ ~Arena_is_valid_slice(arena, <<0, 2>>)

\* C20: the k-th next() call on an EnumerableArena returns the k-th pushed
\* id with the value under it while k is at most the length, and None from
\* then on; the items are those finish() iterates over; an EnumerableArena
\* just returned by enumerate() starts at id 0.
C20_EnumerateInInsertionOrder ==
    /\ pc # "panicked"
    /\ enumerable.some =>
          /\ \A k \in 1..Len(yielded) :
                yielded[k] = IF k <= Len(entries)
                             THEN Some(<<entries[k].id, entries[k].value>>)
                             ELSE None
          /\ Len(yielded) > Len(entries) =>
                Arena_enumerate(arena) = [k \in 1..Len(entries) |-> yielded[k].val]
    /\ last.op = "enumerate" =>
          /\ yielded = <<>>
          /\ EnumerableArena_next(enumerable.val).ret =
                IF entries = <<>> THEN None ELSE Some(<<0, entries[1].value>>)

\* The second None of an EnumerableArena over two values.
C20_Witness ==
    /\ last.op = "next"
    /\ last.ret = None
    /\ Len(entries) = 2
    /\ Len(yielded) = 4
    /\ yielded[1] = Some(<<0, entries[1].value>>)
    /\ yielded[2] = Some(<<1, entries[2].value>>)
    /\ yielded[3] = None

\* ------------------------------------------------ claims on the BaseTurtle
\* The segment a delta_move() by (dx, dy) from (x, y) draws.
Segment(x, y, dx, dy) == <<x, y, f64_add(x, dx), f64_add(y, dy)>>

\* The bounds of `turtle` are those of `old` widened to the point (x, y).
WidenedTo(turtle, old, x, y) ==
    /\ turtle.min_x = f64_min(old.min_x, x)
    /\ turtle.max_x = f64_max(old.max_x, x)
    /\ turtle.min_y = f64_min(old.min_y, y)
    /\ turtle.max_y = f64_max(old.max_y, y)

\* C21: delta_move(dx, dy) takes the turtle to its old position plus (dx, dy);
\* when the pen is down it appends the one segment from the old position to
\* the new one, when the pen is up it leaves the lines alone; either way the
\* bounds are widened to the new position.  So the lines are, in call order,
\* the segments of the delta_move calls made while the pen was down, one each.
C21_DeltaMoveDrawsIffPenDown ==
    /\ last.op = "delta_move" =>
        /\ base.x = f64_add(was.x, args[1])
        /\ base.y = f64_add(was.y, args[2])
        /\ base.lines = IF pen THEN Append(was.lines, <<was.x, was.y, base.x, base.y>>)
                        ELSE was.lines
        /\ WidenedTo(base, was, base.x, base.y)
        /\ base.pen_down = pen
    /\ Len(base.lines) = Len(pen_moves)
    /\ \A i \in 1..Len(pen_moves) :
           base.lines[i] = Segment(pen_moves[i][1], pen_moves[i][2],
                                   pen_moves[i][3], pen_moves[i][4])

\* A move with the pen up, made after a move with the pen down, that widened
\* the bounds downwards and drew nothing.
C21_Witness ==
    /\ last.op = "delta_move"
    /\ ~pen
    /\ base.lines = <<<<F(0), F(0), F(1), F(0)>>>>
    /\ base.min_y = F(-1)
    /\ base.y = F(-1)

\* C22: set_position(x, y) puts the turtle at (x, y) and widens the bounds to
\* it, and changes neither the lines nor the pen, whichever way the pen is;
\* pen_up() and pen_down() change the pen flag and nothing else.
C22_SetPositionAndPenFrame ==
    /\ last.op = "set_position" =>
        /\ base.x = args[1]
        /\ base.y = args[2]
        /\ WidenedTo(base, was, args[1], args[2])
        /\ base.lines = was.lines
        /\ base.pen_down = was.pen_down
        /\ base.pen_down = pen
    /\ last.op = "pen_up" => base = [was EXCEPT !.pen_down = FALSE]
    /\ last.op = "pen_down" => base = [was EXCEPT !.pen_down = TRUE]

\* The turtle was moved away with the pen down, and no segment was added.
C22_Witness ==
    /\ last.op = "set_position"
    /\ pen
    /\ base.x = F(-2)
    /\ was.x = F(1)
    /\ Len(base.lines) = 1
    /\ base.min_x = F(-2)

\* a <= b; false when either is NaN.
f64_le(a, b) == ~a.nan /\ ~b.nan /\ ~f64_lt(b, a)

\* a = b as f64s compare: false when either is NaN.
f64_eq(a, b) == ~a.nan /\ ~b.nan /\ a = b

\* min_x <= 0 <= max_x and min_y <= 0 <= max_y, and bounds() reports a width
\* of max_x - min_x >= 0 and a height of max_y - min_y >= 0.
BoundsHoldOrigin(turtle) ==
    /\ f64_le(turtle.min_x, F(0)) /\ f64_le(F(0), turtle.max_x)
    /\ f64_le(turtle.min_y, F(0)) /\ f64_le(F(0), turtle.max_y)
    /\ f64_eq(BaseTurtle_bounds(turtle)[1], f64_sub(turtle.max_x, turtle.min_x))
    /\ f64_eq(BaseTurtle_bounds(turtle)[2], f64_sub(turtle.max_y, turtle.min_y))
    /\ f64_le(F(0), BaseTurtle_bounds(turtle)[1])
    /\ f64_le(F(0), BaseTurtle_bounds(turtle)[2])

\* C23 as stated: in every state of a BaseTurtle the bounds hold the origin
\* and the turtle, min_x <= x <= max_x and min_y <= y <= max_y.
C23_BoundsHoldTurtle ==
    /\ BoundsHoldOrigin(base)
    /\ f64_le(base.min_x, base.x) /\ f64_le(base.x, base.max_x)
    /\ f64_le(base.min_y, base.y) /\ f64_le(base.y, base.max_y)

\* C23: in every state of a BaseTurtle the bounds hold the origin, and they
\* hold each coordinate of the turtle that is not NaN: min_x <= x <= max_x
\* unless x is NaN, min_y <= y <= max_y unless y is NaN.
C23_BoundsHoldTurtleUnlessNaN ==
    /\ BoundsHoldOrigin(base)
    /\ ~base.x.nan => f64_le(base.min_x, base.x) /\ f64_le(base.x, base.max_x)
    /\ ~base.y.nan => f64_le(base.min_y, base.y) /\ f64_le(base.y, base.max_y)

\* The turtle stands inside bounds that it widened on both axes, in both
\* directions, and away from their edges on one.
C23_Witness ==
    /\ base.min_x = F(-2) /\ base.max_x = F(1)
    /\ base.min_y = F(-1) /\ base.max_y = F(1)
    /\ base.x = F(-2) /\ base.y = F(1)
    /\ BaseTurtle_bounds(base)[1] = F(3)

\* ---------------------------------------------- claims on the SimpleTurtle
\* A fresh SimpleTurtle whose heading was set to 0; its pen is down.
FreshHeadingEast == SimpleTurtle_set_heading(SimpleTurtle_new, F(0))

\* The turtle holds the one segment (0, 0, D, 0) and bounds() is (D, 0, 0, 0).
StraightLine(turtle, D) ==
    /\ BaseTurtle_lines(turtle) = <<<<F(0), F(0), D, F(0)>>>>
    /\ BaseTurtle_bounds(turtle) = <<D, F(0), F(0), F(0)>>

\* C24: a fresh SimpleTurtle with heading 0 and pen down, after forward(D)
\* with D >= 0, has the one segment (0, 0, D, 0) and bounds (D, 0, 0, 0).
C24_StraightLine ==
    (/\ last.op = "forward"
     /\ simple_was = FreshHeadingEast
     /\ args[1] >= 0)
        => StraightLine(simple.turtle, F(args[1]))

\* forward(2) on the fresh turtle heading east.
C24_Witness ==
    /\ last.op = "forward"
    /\ simple_was = FreshHeadingEast
    /\ args[1] = 2
    /\ simple.turtle.x = F(2)
    /\ simple.turtle.lines = <<<<F(0), F(0), F(2), F(0)>>>>

\* C25: a pop() that answers a push() puts x, y and the heading back to what
\* they were when that push() was made, whatever forward, left, right,
\* set_heading and answered push/pop pairs came in between; the push() a
\* pop() answers is the latest one not answered yet.
C25_PopRestoresMatchingPush ==
    (last.op = "pop" /\ matched.some) =>
        /\ BaseTurtle_x(simple.turtle) = matched.val[1]
        /\ BaseTurtle_y(simple.turtle) = matched.val[2]
        /\ simple.heading = matched.val[3]

\* A pop() that took back both a move and a turn.
C25_Witness ==
    /\ last.op = "pop"
    /\ matched.some
    /\ simple_was.turtle.y # simple.turtle.y
    /\ simple_was.heading # simple.heading
    /\ simple.heading = matched.val[3]

\* C26 as stated: pop() on a directional turtle whose stack is empty panics,
\* be the turtle a LatticeTurtle, a StackTurtle or a SimpleTurtle.
C26_PopOnEmptyStackPanics ==
    /\ (last.op = "pop" /\ ~matched.some) => aborted
    /\ (last.op = "StackTurtle.pop" /\ found = 0) => aborted
    /\ (last.op = "LatticeTurtle.pop" /\ found = 0) => aborted

\* C27: SimpleTurtle.pop() with no push() left to answer changes nothing of
\* the turtle (position, heading, lines, bounds, stack) and does not panic.
C27_PopOnEmptyStackDoesNothing ==
    (last.op = "pop" /\ ~matched.some) =>
        /\ simple = simple_was
        /\ simple.stack = <<>>
        /\ ~aborted

\* Such a pop() on a turtle that had moved and drawn.
C27_Witness ==
    /\ last.op = "pop"
    /\ ~matched.some
    /\ simple.turtle.y = F(2)
    /\ Len(simple.turtle.lines) = 1

\* -------------------------------------------- claims on the TurtleRenderer
\* The ids of the list `ids`.
Range(ids) == {ids[i] : i \in 1..Len(ids)}

\* `table` is `old` with each of `keys` set to `value`, the rest unchanged.
SetTo(table, old, keys, value) ==
    /\ DOMAIN table = (DOMAIN old) \cup keys
    /\ \A k \in DOMAIN table : table[k] = IF k \in keys THEN value ELSE old[k]

\* C28: register(id, f) sets the mutator of id to f and the alias of id to
\* id; register_multiple(ids, f) with ids not empty sets the mutator of
\* ids[0], and of no other id, to f and the alias of every id of ids to
\* ids[0]; register_multiple([], f) changes neither table.  Entries of other
\* ids and the state are left as they were.
C28_RegisterBindsAndAliases ==
    /\ last.op = "register" =>
        /\ SetTo(renderer.state_actions, renderer_was.state_actions, {args[1]}, args[2])
        /\ SetTo(renderer.aliases, renderer_was.aliases, {args[1]}, args[1])
        /\ renderer.state = renderer_was.state
    /\ (last.op = "register_multiple" /\ args[1] # <<>>) =>
        /\ SetTo(renderer.state_actions, renderer_was.state_actions,
                 {args[1][1]}, args[2])
        /\ SetTo(renderer.aliases, renderer_was.aliases, Range(args[1]), args[1][1])
        /\ renderer.state = renderer_was.state
    /\ (last.op = "register_multiple" /\ args[1] = <<>>) => renderer = renderer_was

\* register_multiple([1, 0], f) on a renderer where 0 had the mutator g: 0
\* keeps g and is aliased to 1, which has f.
C28_Witness ==
    /\ last.op = "register_multiple"
    /\ args[1] = <<1, 0>>
    /\ args[2] = Pushes("f")
    /\ 0 \in DOMAIN renderer_was.state_actions
    /\ renderer.state_actions[0] = Pushes("g")
    /\ renderer.state_actions[1] = Pushes("f")
    /\ renderer.aliases[0] = 1

\* The places of `seq` whose id has an alias that has a mutator in `r`.
Resolved(r, seq) ==
    {i \in 1..Len(seq) : /\ seq[i] \in DOMAIN r.aliases
                         /\ r.aliases[seq[i]] \in DOMAIN r.state_actions}

\* C29: compute(seq) calls, for each place of seq from left to right whose id
\* has an alias, the mutator of the aliased id, once, on the one state, and
\* passes over the ids without alias: the calls made on the state are those
\* made before followed by one per resolved place, in the order of seq.  It
\* changes neither table.  Right after register_multiple([A, B, C], f),
\* compute([A, B, C]) calls f three times.
C29_ComputeAppliesInOrder ==
    last.op = "compute" =>
        LET seq == args[1]
            hits == Resolved(renderer_was, seq)
            made == Len(renderer_was.state)
        IN  /\ renderer.aliases = renderer_was.aliases
            /\ renderer.state_actions = renderer_was.state_actions
            /\ Len(renderer.state) = made + Cardinality(hits)
            /\ SubSeq(renderer.state, 1, made) = renderer_was.state
            /\ \A i \in hits :
                   renderer.state[made + Cardinality({j \in hits : j <= i})]
                       = renderer_was.state_actions[renderer_was.aliases[seq[i]]].name
            /\ (/\ earlier.op = "register_multiple"
                /\ earlier.args[1] = <<0, 1, 2>>
                /\ seq = <<0, 1, 2>>)
                   => renderer.state = <<earlier.args[2].name, earlier.args[2].name,
                                         earlier.args[2].name>>

\* compute([2, 1, 1, 0]) where 2 has g, 1 is aliased to 0, which has f.
C29_Witness ==
    /\ last.op = "compute"
    /\ args[1] = <<2, 1, 1, 0>>
    /\ renderer.state = <<"g", "f", "f", "f">>
    /\ renderer.aliases[1] = 0

\* ---------------------------------------- claims on the TurtleLSystemBuilder
\* The result of the most recent call is Ok or one of the errors of LSystemError.
TypedResult ==
    last.ret.ok \/ last.ret.err.kind \in
        {"UnknownToken", "InvalidToken", "InvalidArenaId", "InvalidRule", "MissingAxiom"}

\* The parts of `text` that name no token registered with `self`.
Unregistered(self, text) ==
    {part \in Range(split_whitespace(text)) : part \notin DOMAIN self.tokens}

\* C30 as stated: token, axiom, rule and finish of the TurtleLSystemBuilder
\* return Ok or an LSystemError and do not panic on what the user passes;
\* axiom with an empty or whitespace-only string returns an error, and axiom
\* with a symbol that is not registered returns UnknownToken.
C30_BuilderCallsReturnErrors ==
    /\ last.op \in {"token", "axiom", "rule"} => (~aborted /\ TypedResult)
    /\ (last.op = "finish" /\ ~aborted) => TypedResult
    /\ (last.op = "axiom" /\ split_whitespace(args[1]) = <<>>) =>
           (~aborted /\ ~last.ret.ok)
    /\ (last.op = "axiom" /\ Unregistered(turtle_builder_was, args[1]) # {}) =>
           (~aborted /\ ~last.ret.ok /\ last.ret.err.kind = "UnknownToken")

\* ------------------------------------ further claims on the SimpleTurtle
\* The move forward(distance) asks of the BaseTurtle at heading `heading`.
ForwardDelta(heading, distance) ==
    <<f64_mul(f64_cos(heading), F(distance)), f64_mul(f64_sin(heading), F(distance))>>

\* `turtle` stands where `old` stood plus (dx, dy), its bounds widened to there.
MovedBy(turtle, old, dx, dy) ==
    /\ turtle.x = f64_add(old.x, dx)
    /\ turtle.y = f64_add(old.y, dy)
    /\ WidenedTo(turtle, old, turtle.x, turtle.y)

\* C31 as stated: forward(d) moves the BaseTurtle by (cos(heading) * d,
\* sin(heading) * d) when the pen is down; after inner_mut().pen_up() it does
\* not pass the move on, and position, bounds and lines stay as they were.
C31_ForwardOnlyWithPenDown ==
    last.op = "forward" =>
        LET delta == ForwardDelta(simple_was.heading, args[1])
        IN  IF inner_pen
            THEN /\ MovedBy(simple.turtle, simple_was.turtle, delta[1], delta[2])
                 /\ simple.turtle.lines =
                        Append(simple_was.turtle.lines,
                               <<simple_was.turtle.x, simple_was.turtle.y,
                                 simple.turtle.x, simple.turtle.y>>)
            ELSE simple.turtle = simple_was.turtle

\* C31: forward(d) moves the BaseTurtle by (cos(heading) * d, sin(heading) * d)
\* and widens the bounds to the new position whether the pen is down or up;
\* with the pen down it appends the segment of the move, and after
\* inner_mut().pen_up() it leaves the lines, and only the lines, as they were.
C31_ForwardMovesAndDrawsWithPenDown ==
    last.op = "forward" =>
        LET delta == ForwardDelta(simple_was.heading, args[1])
        IN  /\ MovedBy(simple.turtle, simple_was.turtle, delta[1], delta[2])
            /\ simple.turtle.lines =
                   IF inner_pen
                   THEN Append(simple_was.turtle.lines,
                               <<simple_was.turtle.x, simple_was.turtle.y,
                                 simple.turtle.x, simple.turtle.y>>)
                   ELSE simple_was.turtle.lines
            /\ simple.heading = simple_was.heading
            /\ simple.stack = simple_was.stack

\* forward(2) after inner_mut().pen_up(): the turtle moved, the bounds grew,
\* nothing was drawn.
C31_Witness ==
    /\ last.op = "forward"
    /\ ~inner_pen
    /\ args[1] = 2
    /\ simple.turtle.y = F(2)
    /\ simple.turtle.max_y = F(2)
    /\ simple_was.turtle.max_y = F(0)
    /\ simple.turtle.lines = <<>>

\* C37: pop() changes neither the lines nor the bounds of the BaseTurtle.
C37_PopKeepsLinesAndBounds ==
    last.op = "pop" =>
        /\ simple.turtle.lines = simple_was.turtle.lines
        /\ BaseTurtle_bounds(simple.turtle) = BaseTurtle_bounds(simple_was.turtle)
        /\ WidenedTo(simple.turtle, simple_was.turtle, simple_was.turtle.x,
                     simple_was.turtle.y)

\* A pop() that took the turtle back from a place it had drawn its way to.
C37_Witness ==
    /\ last.op = "pop"
    /\ matched.some
    /\ simple_was.turtle.y = F(2)
    /\ simple.turtle.y = F(0)
    /\ Len(simple.turtle.lines) = 1
    /\ simple.turtle.max_y = F(2)

\* --------------------------------------------------- the LatticeTurtle
\* The point of the plane the lattice coordinate (x, y) stands for.
Image(lattice, x, y) ==
    <<F(lattice.x_direction[1].v * x + lattice.y_direction[1].v * y),
      F(lattice.x_direction[2].v * x + lattice.y_direction[2].v * y)>>

\* What a forward(), a push() and a pop() of the LatticeTurtle leave behind;
\* forward() draws its segment when `draws` holds.
LatticeCalls(draws) ==
    /\ last.op = "LatticeTurtle.forward" =>
           LET from == Image(lattice_was.lattice, lattice_was.x, lattice_was.y)
               to == Image(lattice_was.lattice, lattice_turtle.x, lattice_turtle.y)
           IN  /\ lattice_turtle.x = lattice_was.x + args[1][1]
               /\ lattice_turtle.y = lattice_was.y + args[1][2]
               /\ lattice_turtle.stack = lattice_was.stack
               /\ lattice_turtle.inner.lines =
                      IF draws
                      THEN Append(lattice_was.inner.lines,
                                  <<from[1], from[2], to[1], to[2]>>)
                      ELSE lattice_was.inner.lines
               /\ (lattice_turtle.lattice = LatticeTurtle_grid.lattice) =>
                      /\ lattice_turtle.inner.x = F(lattice_turtle.x)
                      /\ lattice_turtle.inner.y = F(lattice_turtle.y)
    /\ last.op = "LatticeTurtle.push" =>
           /\ lattice_turtle.stack =
                  Append(lattice_was.stack, <<lattice_was.x, lattice_was.y>>)
           /\ lattice_turtle.inner = lattice_was.inner
    /\ (last.op = "LatticeTurtle.pop" /\ ~aborted) =>
           /\ lattice_matched.some
           /\ <<lattice_turtle.x, lattice_turtle.y>> = lattice_matched.val
           /\ lattice_turtle.stack = lattice_marks
           /\ lattice_turtle.inner = lattice_was.inner

\* A step that changes the lattice coordinate is a forward(), a pop() or the
\* construction of the turtle.
LatticeCoordinateStep ==
    <<lattice_turtle.x, lattice_turtle.y>>' # <<lattice_turtle.x, lattice_turtle.y>>
        => last'.op \in {"LatticeTurtle.forward", "LatticeTurtle.pop"}

C33_AliasTargetsHaveMutators ==
    \A id \in DOMAIN renderer.aliases : renderer.aliases[id] \in DOMAIN renderer.state_actions

\* compute() has called the mutator of an id through the alias of another id.
C33_Witness ==
    /\ last.op = "compute"
    /\ \E i \in 1..Len(args[1]) :
           /\ args[1][i] \in DOMAIN renderer.aliases
           /\ renderer.aliases[args[1][i]] # args[1][i]
           /\ args[1][i] \notin DOMAIN renderer.state_actions
    /\ Len(renderer.state) = Len(args[1])

\* The names compute(seq) pushes when the mutator called for the id `id` is
\* chosen[id], and ids outside the domain of `chosen` are passed over.
Invoked(chosen, seq) ==
    LET hits == {i \in 1..Len(seq) : seq[i] \in DOMAIN chosen}
    IN  [k \in 1..Cardinality(hits) |->
            chosen[seq[CHOOSE i \in hits : Cardinality({j \in hits : j <= i}) = k]].name]

\* C34: aliases are followed one level only, and a later registration
\* replaces the entries of the ids it names and of no other.  After
\* register_multiple([A, B], f) and then register_multiple([C, A], g) on a new
\* renderer, compute() calls f for B and g for A and C; after
\* register_multiple([A, B], f) and then register(B, h) it calls h for B and f
\* for A.
C34_SingleLevelAliases ==
    (/\ last.op = "compute"
     /\ ncalls = 3
     /\ opening.op = "register_multiple"
     /\ Len(opening.args[1]) = 2
     /\ opening.args[1][1] # opening.args[1][2]) =>
        LET A == opening.args[1][1]
            B == opening.args[1][2]
            f == opening.args[2]
        IN  /\ (/\ earlier.op = "register_multiple"
                /\ Len(earlier.args[1]) = 2
                /\ earlier.args[1][2] = A
                /\ earlier.args[1][1] \notin {A, B}) =>
                   LET C == earlier.args[1][1]
                       g == earlier.args[2]
                   IN  /\ renderer.aliases[renderer.aliases[B]] # renderer.aliases[B]
                       /\ renderer.state =
                              Invoked((B :> f) @@ (A :> g) @@ (C :> g), args[1])
            /\ (earlier.op = "register" /\ earlier.args[1] = B) =>
                   renderer.state = Invoked((B :> earlier.args[2]) @@ (A :> f), args[1])

\* compute([B, A, C]) after register_multiple([A, B], f) and
\* register_multiple([C, A], g), with A = 1, B = 0, C = 2: B is aliased to A
\* and A to C, and f was called for B.
C34_Witness ==
    /\ last.op = "compute"
    /\ ncalls = 3
    /\ opening.op = "register_multiple"
    /\ opening.args = << <<1, 0>>, Pushes("f") >>
    /\ earlier.op = "register_multiple"
    /\ earlier.args = << <<2, 1>>, Pushes("g") >>
    /\ args[1] = <<0, 1, 2>>
    /\ renderer.aliases[0] = 1
    /\ renderer.aliases[1] = 2
    /\ renderer.state = <<"f", "g", "g">>

\* ------------------------------------------ claims on the drawing renderer
\* The action of the token handed to the drawing renderer most recently.
FedAction == DrawingBuilder.actions[args[1]]

\* C35: whatever tokens compute() is handed, balanced or not, the angle stack
\* and the position stack of the SimpleTurtle are equally long; a Pop token
\* that finds the stacks empty changes nothing; a Pop token that answers a Push
\* token restores the angle and the position of the turtle as they were at
\* that Push; a token registered with TurtleAction::Nothing changes nothing.
C35_PushPopNothing ==
    /\ Len(drawing.state.angle_stack) = Len(drawing.state.turtle.stack)
    /\ Len(drawing.state.angle_stack) = Len(saved)
    /\ (last.op = "compute_one" /\ FedAction.kind = "Pop") =>
           IF answered.some
           THEN /\ drawing.state.angle = answered.val.angle
                /\ drawing.state.turtle.turtle.x = answered.val.x
                /\ drawing.state.turtle.turtle.y = answered.val.y
                /\ drawing.state.turtle.heading = answered.val.heading
           ELSE /\ drawing_was.state.angle_stack = <<>>
                /\ drawing_was.state.turtle.stack = <<>>
                /\ drawing = drawing_was
    /\ (last.op = "compute_one" /\ FedAction.kind = "Nothing") => drawing = drawing_was

\* A Pop token that took the turtle back two Forward tokens and a Rotate token
\* to the Push token before them.
C35_Witness ==
    /\ last.op = "compute_one"
    /\ FedAction.kind = "Pop"
    /\ answered.some
    /\ answered.val.angle # drawing_was.state.angle
    /\ answered.val.x # drawing_was.state.turtle.turtle.x
    /\ answered.val.y # drawing_was.state.turtle.turtle.y
    /\ drawing.state.angle = 0

\* 2^30
Two30 == (i32_MAX - 1) \div 2 + 1

\* C36: whatever Rotate(a) tokens with |a| < 2^30 compute() is handed, the
\* angle stays strictly between -360 and 360, it is the angle before plus a
\* up to a multiple of 360 with the sign of that sum, and state.angle + a
\* does not overflow i32: no Rotate token panics.
C36_AngleStaysInRange ==
    /\ -360 < drawing.state.angle
    /\ drawing.state.angle < 360
    /\ (/\ last.op = "compute_one"
        /\ FedAction.kind = "Rotate"
        /\ -Two30 < FedAction.angle
        /\ FedAction.angle < Two30) =>
           LET sum == drawing_was.state.angle + FedAction.angle
           IN  /\ ~aborted
               /\ -i32_MAX - 1 <= sum
               /\ sum <= i32_MAX
               /\ (sum - drawing.state.angle) % 360 = 0
               /\ sum >= 0 => drawing.state.angle >= 0
               /\ sum <= 0 => drawing.state.angle <= 0

\* A Rotate token with an angle below -2^29 has left a negative angle.
C36_Witness ==
    /\ last.op = "compute_one"
    /\ FedAction.kind = "Rotate"
    /\ FedAction.angle < 0 - Two30 \div 2
    /\ drawing.state.angle = -270
    /\ drawing_was.state.angle = -180

\* ------------------------------------------------- the ids a builder hands out
\* C38: a token() call that fails on its name adds nothing to the arena (it
\* leaves the builder as it found it), a token() call that succeeds returns
\* the length the arena had, and so the ids one builder hands out are 0, 1,
\* 2, ... in order, whatever calls failed in between.
C38_FailedTokenSpendsNoId ==
    /\ handed = [i \in 1..Len(handed) |-> i - 1]
    /\ Arena_len(other.arena) = Len(handed)
    /\ (last.op = "other.token" /\ ~last.ret.ok) =>
           /\ other = other_was
           /\ Arena_len(other.arena) = Arena_len(other_was.arena)
    /\ (last.op = "other.token" /\ last.ret.ok) =>
           /\ last.ret.val = Arena_len(other_was.arena)
           /\ last.ret.val = Len(handed) - 1

\* The second id handed out, by a builder that has refused a name.
C38_Witness ==
    /\ last.op = "other.token"
    /\ last.ret.ok
    /\ spurned
    /\ last.ret.val = 1
    /\ handed = <<0, 1>>

\* ------------------------------------------------ claims on the video renderer
\* The buffer in which the lines 0..i, and no other, are drawn.
Shown(i) == {video.lines[k] : k \in 1..(i + 1)}

\* Every frame writer holds the buffer as it was when it was spawned, and has
\* saved that buffer if it has saved.
FramesAreSnapshots ==
    \A w \in 1..Len(video.workers) :
        LET worker == video.workers[w]
        IN  /\ worker.local_buffer = Shown(worker.after_line)
            /\ (worker.state = "saved" /\ video.dir.exists) =>
                   video.dir.frames[worker.filename] = Shown(worker.after_line)

\* join() has returned for the frame writer w: with Ok, or with the Err that
\* made render() panic.
Joined(w) == w < video.next_join \/ (video.pc = "panicked" /\ w = video.next_join)

\* Every frame writer has been joined.
AllJoined == \A w \in 1..Len(video.workers) : Joined(w)

\* The temporary directory has been deleted.
DirDeleted == video.pc # "idle" /\ ~video.dir.exists

EmittedAfter == {video.workers[w].after_line : w \in 1..Len(video.workers)}

\* C40: a frame is emitted after line i (counted from 0) iff skip_by = 0 or
\* i mod skip_by = 0; the frames are numbered from 0 without gaps in the order
\* of their lines, the frame files are collected in that order, and the frame
\* emitted after line i shows the lines 0..i and no other.
C40_FramesFollowSkipBy ==
    /\ EmittedAfter = {i \in 0..(video.frame_counter - 1) :
                          video.skip_by = 0 \/ i % video.skip_by = 0}
    /\ video.files = [k \in 1..Len(video.workers) |-> k - 1]
    /\ video.absolute_frame_counter = Len(video.files)
    /\ \A k \in 1..Len(video.workers) :
           /\ video.workers[k].filename = video.files[k]
           /\ video.workers[k].local_buffer = Shown(video.workers[k].after_line)
           /\ \A j \in 1..(k - 1) :
                  video.workers[j].after_line < video.workers[k].after_line
    /\ video.pc \in {"assembled", "done"} =>
           video.output = [k \in 1..Len(video.workers) |->
                               Shown(video.workers[k].after_line)]

\* render() of three lines with skip_by = 2 has returned: frames 0 and 1 were
\* emitted after the lines 0 and 2 and show one and three lines.
C40_Witness ==
    /\ video.pc = "done"
    /\ video.skip_by = 2
    /\ video.lines = <<"a", "b", "b">>
    /\ video.files = <<0, 1>>
    /\ EmittedAfter = {0, 2}
    /\ video.output = <<{"a"}, {"a", "b"}>>

====
